---- MODULE Spec2Model ----
(***************************************************************************)
(* BetterClaw plugin: event pipeline, rules engine, context store, event   *)
(* log, pattern engine and proactive engine as one state machine.          *)
(*                                                                         *)
(* Encodings.  A nullable value (T | null | undefined) is the empty tuple  *)
(* Null when absent and <<v>> when present.  Fractions in [0,1] (battery   *)
(* level) are counted in hundredths.  Times are whole seconds since the    *)
(* epoch.  A log file is a sequence of runs [e |-> entry, n |-> count]: n  *)
(* consecutive lines holding the same entry.  A reason string is the       *)
(* sequence of its parts; it contains a word when the word is a part.      *)
(***************************************************************************)
EXTENDS Integers, Sequences, FiniteSets, TLC

VARIABLES
    config,        \* resolved PluginConfig plus the host's time zone offset
    now,           \* Date.now() / 1000
    initialized,   \* the initialized flag of register()
    initPc,        \* position of the startup init promise
    context,       \* ContextManager.context
    lastFired,     \* RulesEngine.lastFired (a Map: its domain are the keys)
    contextFile,   \* context.json (Null when missing)
    logFile,       \* events.jsonl
    patternsFile,  \* patterns.json (Null when missing)
    proc,          \* one record per betterclaw.event handler invocation
    compute,       \* the PatternEngine.compute run
    checkAll,      \* the ProactiveEngine.checkAll run
    service,       \* timers of the background service
    lastAttempt    \* per trigger id, when checkAll last ran the delivery command

vars == <<config, now, initialized, initPc, context, lastFired, contextFile,
          logFile, patternsFile, proc, compute, checkAll, service, lastAttempt>>

----------------------------------------------------------------------------
(* Bounds of the model *)

MaxEvents == 2          \* handler invocations
MaxBudget == 2          \* largest configured pushBudgetPerDay
MaxTicks == 1           \* clock advances
MaxComputes == 1        \* runs of compute() started by its interval
MaxChecks == 2          \* runs of checkAll()

----------------------------------------------------------------------------
(* Nullable values and small helpers *)

Null == <<>>
Some(v) == <<v>>
Val(o) == o[1]
Coalesce(a, b) == IF a # Null THEN a ELSE b
Get(rec, k) == IF k \in DOMAIN rec THEN <<rec[k]>> ELSE Null
Abs(x) == IF x < 0 THEN -x ELSE x
Max(a, b) == IF a >= b THEN a ELSE b
IsPrefix(s, t) == Len(s) <= Len(t) /\ SubSeq(t, 1, Len(s)) = s
Occurs(x, s) == \E i \in 1..Len(s) : s[i] = x
CountOf(x, s) == Cardinality({i \in 1..Len(s) : s[i] = x})

DAY == 86400
T0 == 20000 * DAY + 8 * 3600     \* a morning, 08:00 UTC

----------------------------------------------------------------------------
(* Context store *)

empty ==
    [device |-> [battery |-> Null, location |-> Null, health |-> Null],
     activity |-> [currentZone |-> Null, zoneEnteredAt |-> Null,
                   lastTransition |-> Null, isStationary |-> TRUE,
                   stationarySince |-> Null],
     meta |-> [lastEventAt |-> 0, eventsToday |-> 0,
               lastAgentPushAt |-> 0, pushesToday |-> 0]]

\* variant: the rollover resets eventsToday only
updateMetaKeepPushes(m, firedAt) ==
    LET lastDay == m.lastEventAt \div DAY
        currentDay == firedAt \div DAY
        r == IF lastDay # currentDay /\ m.lastEventAt > 0
             THEN [m EXCEPT !.eventsToday = 0]
             ELSE m
    IN  [r EXCEPT !.lastEventAt = firedAt, !.eventsToday = r.eventsToday + 1]

\* Daily counters reset at midnight UTC, then lastEventAt and eventsToday.
updateMeta(m, firedAt) ==
    LET lastDay == m.lastEventAt \div DAY
        currentDay == firedAt \div DAY
        r == IF lastDay # currentDay /\ m.lastEventAt > 0
             THEN [m EXCEPT !.eventsToday = 0, !.pushesToday = 0]
             ELSE m
    IN  [r EXCEPT !.lastEventAt = firedAt, !.eventsToday = r.eventsToday + 1]

updateBattery(ctx, event) ==
    LET data == event.data
        old == ctx.device.battery
        oldLevel == IF old # Null THEN Some(Val(old).level) ELSE Null
    IN  [level |-> Val(Coalesce(Get(data, "level"), Coalesce(oldLevel, Some(0)))),
         state |-> IF old # Null THEN Val(old).state ELSE "unknown",
         isLowPowerMode |-> Val(Coalesce(Get(data, "isLowPowerMode"), Some(0))) = 1,
         updatedAt |-> Val(Coalesce(Get(data, "updatedAt"), Some(event.firedAt)))]

\* variant: an exit leaves the zone in place
updateActivityKeepZone(act, event) ==
    LET zoneName == Get(event.metadata, "zoneName")
        prevZone == act.currentZone
        at == event.firedAt
    IN  IF Get(event.data, "type") = Some(1)
        THEN [currentZone |-> zoneName, zoneEnteredAt |-> Some(at),
              lastTransition |-> Some([from |-> prevZone, to |-> zoneName, at |-> at]),
              isStationary |-> TRUE, stationarySince |-> Some(at)]
        ELSE [currentZone |-> prevZone, zoneEnteredAt |-> Null,
              lastTransition |-> Some([from |-> prevZone, to |-> Null, at |-> at]),
              isStationary |-> FALSE, stationarySince |-> Null]

\* variant: a transition is recorded as leaving the zone it arrives in
updateActivityFromNew(act, event) ==
    LET zoneName == Get(event.metadata, "zoneName")
        at == event.firedAt
    IN  IF Get(event.data, "type") = Some(1)
        THEN [currentZone |-> zoneName, zoneEnteredAt |-> Some(at),
              lastTransition |-> Some([from |-> zoneName, to |-> zoneName, at |-> at]),
              isStationary |-> TRUE, stationarySince |-> Some(at)]
        ELSE [currentZone |-> Null, zoneEnteredAt |-> Null,
              lastTransition |-> Some([from |-> Null, to |-> Null, at |-> at]),
              isStationary |-> FALSE, stationarySince |-> Null]

\* case "geofence.triggered": enter iff data.type === 1
updateActivity(act, event) ==
    LET zoneName == Get(event.metadata, "zoneName")
        prevZone == act.currentZone
        at == event.firedAt
    IN  IF Get(event.data, "type") = Some(1)
        THEN [currentZone |-> zoneName, zoneEnteredAt |-> Some(at),
              lastTransition |-> Some([from |-> prevZone, to |-> zoneName, at |-> at]),
              isStationary |-> TRUE, stationarySince |-> Some(at)]
        ELSE [currentZone |-> Null, zoneEnteredAt |-> Null,
              lastTransition |-> Some([from |-> prevZone, to |-> Null, at |-> at]),
              isStationary |-> FALSE, stationarySince |-> Null]

\* variant: the label is the zone the event names
updateLocationEventZone(ctx, act, event) ==
    LET data == event.data
        old == ctx.device.location
        oldF(f) == IF old # Null THEN Some(Val(old)[f]) ELSE Null
    IN  [latitude |-> Val(Coalesce(Get(data, "latitude"), Coalesce(oldF("latitude"), Some(0)))),
         longitude |-> Val(Coalesce(Get(data, "longitude"), Coalesce(oldF("longitude"), Some(0)))),
         horizontalAccuracy |-> Val(Coalesce(oldF("horizontalAccuracy"), Some(0))),
         label |-> Get(event.metadata, "zoneName"),
         updatedAt |-> Val(Coalesce(Get(data, "timestamp"), Some(event.firedAt)))]

\* the location record of a geofence event
updateLocation(ctx, act, event) ==
    LET data == event.data
        old == ctx.device.location
        oldF(f) == IF old # Null THEN Some(Val(old)[f]) ELSE Null
    IN  [latitude |-> Val(Coalesce(Get(data, "latitude"), Coalesce(oldF("latitude"), Some(0)))),
         longitude |-> Val(Coalesce(Get(data, "longitude"), Coalesce(oldF("longitude"), Some(0)))),
         horizontalAccuracy |-> Val(Coalesce(oldF("horizontalAccuracy"), Some(0))),
         label |-> act.currentZone,
         updatedAt |-> Val(Coalesce(Get(data, "timestamp"), Some(event.firedAt)))]

HealthMetrics ==
    {"stepsToday", "distanceMeters", "heartRateAvg", "restingHeartRate", "hrv",
     "activeEnergyKcal", "sleepDurationSeconds"}

\* variant: the event's metrics replace the record
updateHealthReplace(ctx, event) ==
    LET data == event.data
        merged == [k \in HealthMetrics |-> Get(data, k)]
    IN  [stepsToday |-> merged["stepsToday"],
         distanceMeters |-> merged["distanceMeters"],
         heartRateAvg |-> merged["heartRateAvg"],
         restingHeartRate |-> merged["restingHeartRate"],
         hrv |-> merged["hrv"],
         activeEnergyKcal |-> merged["activeEnergyKcal"],
         sleepDurationSeconds |-> merged["sleepDurationSeconds"],
         updatedAt |-> Val(Coalesce(Get(data, "updatedAt"), Some(event.firedAt)))]

updateHealth(ctx, event) ==
    LET data == event.data
        old == ctx.device.health
        merged == [k \in HealthMetrics |->
                     Coalesce(Get(data, k), IF old # Null THEN Val(old)[k] ELSE Null)]
    IN  [stepsToday |-> merged["stepsToday"],
         distanceMeters |-> merged["distanceMeters"],
         heartRateAvg |-> merged["heartRateAvg"],
         restingHeartRate |-> merged["restingHeartRate"],
         hrv |-> merged["hrv"],
         activeEnergyKcal |-> merged["activeEnergyKcal"],
         sleepDurationSeconds |-> merged["sleepDurationSeconds"],
         updatedAt |-> Val(Coalesce(Get(data, "updatedAt"), Some(event.firedAt)))]

\* event.source.startsWith("health"), over the sources the model draws
startsWithHealth(source) == source \in {"health", "health.summary", "health.steps"}

updateFromEvent(ctx, event) ==
    LET m == updateMeta(ctx.meta, event.firedAt)
        c == [ctx EXCEPT !.meta = m]
    IN  CASE event.source = "device.battery" ->
               [c EXCEPT !.device.battery = Some(updateBattery(ctx, event))]
          [] event.source = "geofence.triggered" ->
               LET act == updateActivity(ctx.activity, event)
               IN  [c EXCEPT !.activity = act,
                             !.device.location = Some(updateLocation(ctx, act, event))]
          [] startsWithHealth(event.source) ->
               [c EXCEPT !.device.health = Some(updateHealth(ctx, event))]
          [] OTHER -> c

recordPush(ctx, t) ==
    [ctx EXCEPT !.meta.lastAgentPushAt = t, !.meta.pushesToday = ctx.meta.pushesToday + 1]

----------------------------------------------------------------------------
(* Rules engine *)

DEFAULT_COOLDOWN == 1800

DEDUP_COOLDOWN(subscriptionId) ==
    CASE subscriptionId = "default.battery-low" -> Some(3600)
      [] subscriptionId = "default.battery-critical" -> Some(1800)
      [] subscriptionId = "default.daily-health" -> Some(82800)
      [] subscriptionId = "default.geofence" -> Some(300)
      [] OTHER -> Null

cooldownOf(subscriptionId) ==
    Val(Coalesce(DEDUP_COOLDOWN(subscriptionId), Some(DEFAULT_COOLDOWN)))

\* variant: getUTCHours()
getUTCHours(t, tzOffset) == (t \div 3600) % 24

\* new Date(t * 1000).getHours() in the host's time zone
getHours(t, tzOffset) == ((t + tzOffset) \div 3600) % 24

\* variant: the flag is looked up in the event's metadata
isDebugInMetadata(event) == Get(event.metadata, "_debugFired") = Some(1)

isDebug(event) == Get(event.data, "_debugFired") = Some(1)

\* lastFiredAt && firedAt - lastFiredAt < cooldown: a stored 0 is falsy
insideDedupWindow(event, lf) ==
    /\ event.subscriptionId \in DOMAIN lf
    /\ lf[event.subscriptionId] # 0
    /\ event.firedAt - lf[event.subscriptionId] < cooldownOf(event.subscriptionId)

batteryLevelUnchanged(event, ctx) ==
    /\ ctx.device.battery # Null
    /\ Get(event.data, "level") # Null
    /\ Abs(Val(Get(event.data, "level")) - Val(ctx.device.battery).level) < 2

\* evaluate with its budget check also placed before the always-push rules
\* (early), or taking the budget as exhausted only above it (above)
evaluateWith(early, above, event, ctx, lf, pushBudget, tzOffset) ==
    LET exhausted == IF above THEN ctx.meta.pushesToday > pushBudget
                     ELSE ctx.meta.pushesToday >= pushBudget
        budgetDrop == [action |-> "drop",
                       reason |-> <<"push ", "budget", " exhausted (",
                                    ToString(ctx.meta.pushesToday), "/",
                                    ToString(pushBudget), " today)">>]
    IN  IF isDebug(event)
        THEN [action |-> "push", reason |-> <<"debug", " event - always push">>]
        ELSE IF insideDedupWindow(event, lf)
        THEN [action |-> "drop",
              reason |-> <<"dedup", ": ", event.subscriptionId, " fired ",
                           ToString(event.firedAt - lf[event.subscriptionId]),
                           "s ago (cooldown: ",
                           ToString(cooldownOf(event.subscriptionId)), "s)">>]
        ELSE IF early /\ exhausted
        THEN budgetDrop
        ELSE IF event.subscriptionId = "default.battery-critical"
        THEN [action |-> "push", reason |-> <<"critical battery - always push">>]
        ELSE IF event.source = "geofence.triggered"
        THEN [action |-> "push", reason |-> <<"geofence event - always push">>]
        ELSE IF event.subscriptionId = "default.battery-low"
        THEN IF batteryLevelUnchanged(event, ctx)
             THEN [action |-> "drop",
                   reason |-> <<"battery-low: ", "level unchanged", " since last push">>]
             ELSE [action |-> "push", reason |-> <<"battery low - level changed">>]
        ELSE IF event.subscriptionId = "default.daily-health"
        THEN IF getHours(event.firedAt, tzOffset) >= 6
                /\ getHours(event.firedAt, tzOffset) <= 10
             THEN [action |-> "push",
                   reason |-> <<"daily health summary - within morning window">>]
             ELSE [action |-> "defer",
                   reason |-> <<"daily health summary - outside morning window">>]
        ELSE IF exhausted
        THEN budgetDrop
        ELSE [action |-> "ambiguous",
              reason |-> <<"no rule matched - forward to LLM judgment">>]

\* variant: the budget is checked before the always-push rules
evaluateBudgetFirst(event, ctx, lf, pushBudget, tzOffset) ==
    evaluateWith(TRUE, FALSE, event, ctx, lf, pushBudget, tzOffset)

\* variant: pushesToday > pushBudget
evaluateBudgetAbove(event, ctx, lf, pushBudget, tzOffset) ==
    evaluateWith(FALSE, TRUE, event, ctx, lf, pushBudget, tzOffset)

evaluate(event, ctx, lf, pushBudget, tzOffset) ==
    IF isDebug(event)
    THEN [action |-> "push", reason |-> <<"debug", " event - always push">>]
    ELSE IF insideDedupWindow(event, lf)
    THEN [action |-> "drop",
          reason |-> <<"dedup", ": ", event.subscriptionId, " fired ",
                       ToString(event.firedAt - lf[event.subscriptionId]),
                       "s ago (cooldown: ",
                       ToString(cooldownOf(event.subscriptionId)), "s)">>]
    ELSE IF event.subscriptionId = "default.battery-critical"
    THEN [action |-> "push", reason |-> <<"critical battery - always push">>]
    ELSE IF event.source = "geofence.triggered"
    THEN [action |-> "push", reason |-> <<"geofence event - always push">>]
    ELSE IF event.subscriptionId = "default.battery-low"
    THEN IF batteryLevelUnchanged(event, ctx)
         THEN [action |-> "drop",
               reason |-> <<"battery-low: ", "level unchanged", " since last push">>]
         ELSE [action |-> "push", reason |-> <<"battery low - level changed">>]
    ELSE IF event.subscriptionId = "default.daily-health"
    THEN IF getHours(event.firedAt, tzOffset) >= 6 /\ getHours(event.firedAt, tzOffset) <= 10
         THEN [action |-> "push",
               reason |-> <<"daily health summary - within morning window">>]
         ELSE [action |-> "defer",
               reason |-> <<"daily health summary - outside morning window">>]
    ELSE IF ctx.meta.pushesToday >= pushBudget
    THEN [action |-> "drop",
          reason |-> <<"push ", "budget", " exhausted (", ToString(ctx.meta.pushesToday),
                       "/", ToString(pushBudget), " today)">>]
    ELSE [action |-> "ambiguous",
          reason |-> <<"no rule matched - forward to LLM judgment">>]

recordFired(lf, subscriptionId, firedAt) ==
    [k \in DOMAIN lf \cup {subscriptionId} |->
        IF k = subscriptionId THEN firedAt ELSE lf[k]]

\* variant: the last entry of a subscription wins
RECURSIVE restoreCooldownsLast(_, _)
restoreCooldownsLast(lf, entries) ==
    IF entries = <<>> THEN lf
    ELSE restoreCooldownsLast(recordFired(lf, Head(entries).subscriptionId,
                                          Head(entries).firedAt),
                              Tail(entries))

\* an entry is taken when nothing (or 0) is held or its firedAt is greater
RECURSIVE restoreCooldowns(_, _)
restoreCooldowns(lf, entries) ==
    IF entries = <<>> THEN lf
    ELSE LET e == Head(entries)
             keep == /\ e.subscriptionId \in DOMAIN lf
                     /\ lf[e.subscriptionId] # 0
                     /\ ~(e.firedAt > lf[e.subscriptionId])
         IN  restoreCooldowns(
                 IF keep THEN lf ELSE recordFired(lf, e.subscriptionId, e.firedAt),
                 Tail(entries))

----------------------------------------------------------------------------
(* Judgment layer.  The LLM's text is a sequence of tokens: a fence, or one *)
(* of the documents of JsonTable, or text that is no JSON.                  *)

\* the three-backtick fence is written <fence>
FenceOpen == {"<fence>", "<fence>json", "<fence>JSON"}
FenceClose == {"<fence>"}

\* JSON.parse of one document: its kind, and the type of its fields
JsonTable ==
    [doc \in {"{push:true,reason:r}", "{push:false,reason:r}", "{reason:r}",
              "{push:1}", "null", "42"} |->
       CASE doc = "{push:true,reason:r}" ->
              [ok |-> TRUE, kind |-> "object", push |-> "true", reason |-> "string"]
         [] doc = "{push:false,reason:r}" ->
              [ok |-> TRUE, kind |-> "object", push |-> "false", reason |-> "string"]
         [] doc = "{reason:r}" ->
              [ok |-> TRUE, kind |-> "object", push |-> "undefined", reason |-> "string"]
         [] doc = "{push:1}" ->
              [ok |-> TRUE, kind |-> "object", push |-> "number", reason |-> "undefined"]
         [] doc = "null" ->
              [ok |-> TRUE, kind |-> "null", push |-> "undefined", reason |-> "undefined"]
         [] doc = "42" ->
              [ok |-> TRUE, kind |-> "number", push |-> "undefined", reason |-> "undefined"]]

JsonParse(tokens) ==
    IF Len(tokens) = 1 /\ tokens[1] \in DOMAIN JsonTable
    THEN JsonTable[tokens[1]]
    ELSE [ok |-> FALSE, kind |-> "error", push |-> "undefined", reason |-> "undefined"]

\* strips a leading fence (with an optional "json") and a trailing fence
stripFences(text) ==
    LET a == IF text # <<>> /\ Head(text) \in FenceOpen THEN Tail(text) ELSE text
    IN  IF a # <<>> /\ a[Len(a)] \in FenceClose THEN SubSeq(a, 1, Len(a) - 1) ELSE a

\* the context as the prompt shows it: location reduced to label and updatedAt
sanitizedContext(ctx) ==
    [ctx EXCEPT !.device.location =
        IF @ # Null
        THEN Some([label |-> Val(Coalesce(Val(@).label, Some("Unknown"))),
                   updatedAt |-> Val(@).updatedAt])
        ELSE Null]

\* variant: the context goes into the prompt as it is
buildPromptRaw(event, ctx, pushesToday, budget, t) ==
    << <<"You are an event triage system for a personal AI assistant.">>,
       <<"Given the device context and a new event, decide: should the AI assistant be told about this?">>,
       <<"">>,
       <<"Respond with ONLY valid JSON: {push: true/false, reason: one sentence}">>,
       <<"">>,
       <<"Context: ", ctx>>,
       <<"Event: ", event>>,
       <<"Pushes today: ", pushesToday, " of ~", budget, " budget">>,
       <<"Time: ", t>> >>

\* the prompt, line by line; an interpolated JSON document is written as the
\* value it serialises
buildPrompt(event, ctx, pushesToday, budget, t) ==
    << <<"You are an event triage system for a personal AI assistant.">>,
       <<"Given the device context and a new event, decide: should the AI assistant be told about this?">>,
       <<"">>,
       <<"Respond with ONLY valid JSON: {push: true/false, reason: one sentence}">>,
       <<"">>,
       <<"Context: ", sanitizedContext(ctx)>>,
       <<"Event: ", event>>,
       <<"Pushes today: ", pushesToday, " of ~", budget, " budget">>,
       <<"Time: ", t>> >>

\* llmModel is the list llmModel.split("/"); model is the rest joined by "/"
modelConfigured(llmModel) ==
    LET provider == Head(llmModel)
        modelParts == Tail(llmModel)
    IN  /\ provider # ""
        /\ modelParts # <<>>
        /\ (Len(modelParts) > 1 \/ modelParts[1] # "")

\* variant: the catch around JSON.parse answers push false
judgmentEvaluateFailClosed(llmModel, outcome) ==
    IF ~modelConfigured(llmModel)
    THEN [push |-> TRUE, reason |-> <<"llm model not configured - fail open">>]
    ELSE IF outcome.kind # "payloads"
    THEN [push |-> TRUE, reason |-> <<"llm call failed - fail open">>]
    ELSE IF outcome.text = <<>>
    THEN [push |-> TRUE, reason |-> <<"llm returned empty - fail open">>]
    ELSE LET parsed == JsonParse(stripFences(outcome.text))
         IN  IF ~parsed.ok \/ parsed.kind = "null"
             THEN [push |-> FALSE, reason |-> <<"llm returned invalid json">>]
             ELSE [push |-> parsed.push = "true",
                   reason |-> IF parsed.reason = "string"
                              THEN <<"<reason given by the model>">>
                              ELSE <<"no reason given">>]

judgmentEvaluate(llmModel, outcome) ==
    IF ~modelConfigured(llmModel)
    THEN [push |-> TRUE, reason |-> <<"llm model not configured - fail open">>]
    ELSE IF outcome.kind # "payloads"
    THEN [push |-> TRUE, reason |-> <<"llm call failed - fail open">>]
    ELSE IF outcome.text = <<>>
    THEN [push |-> TRUE, reason |-> <<"llm returned empty - fail open">>]
    ELSE LET parsed == JsonParse(stripFences(outcome.text))
         IN  IF ~parsed.ok \/ parsed.kind = "null"
             THEN [push |-> TRUE, reason |-> <<"llm returned invalid json - fail open">>]
             ELSE [push |-> parsed.push = "true",
                   reason |-> IF parsed.reason = "string"
                              THEN <<"<reason given by the model>">>
                              ELSE <<"no reason given">>]

----------------------------------------------------------------------------
(* Event log *)

MAX_LINES == 10000
MAX_AGE == 30 * 24 * 60 * 60       \* MAX_AGE_MS / 1000

RECURSIVE lineCount(_)
lineCount(log) == IF log = <<>> THEN 0 ELSE Head(log).n + lineCount(Tail(log))

\* variant: the line is written twice
appendTwice(log, entry) ==
    IF log # <<>> /\ log[Len(log)].e = entry
    THEN [log EXCEPT ![Len(log)].n = @ + 2]
    ELSE Append(log, [e |-> entry, n |-> 2])

\* fs.appendFile of one line
append(log, entry) ==
    IF log # <<>> /\ log[Len(log)].e = entry
    THEN [log EXCEPT ![Len(log)].n = @ + 1]
    ELSE Append(log, [e |-> entry, n |-> 1])

readAll(log) == log

readSince(log, sinceEpoch) ==
    SelectSeq(readAll(log), LAMBDA r : r.e.timestamp >= sinceEpoch)

\* the entries of a list of runs, one by one
RECURSIVE Expand(_)
Expand(log) ==
    IF log = <<>> THEN <<>>
    ELSE LET r == Head(log)
         IN  IF r.n = 0 THEN Expand(Tail(log))
             ELSE <<r.e>> \o Expand(<<[r EXCEPT !.n = r.n - 1]>> \o Tail(log))

\* log.slice(-k): the last k lines of a list of runs
RECURSIVE lastLines(_, _)
lastLines(log, k) ==
    IF log = <<>> \/ k <= 0 THEN <<>>
    ELSE LET last == log[Len(log)]
             front == SubSeq(log, 1, Len(log) - 1)
         IN  IF last.n >= k THEN <<[last EXCEPT !.n = k]>>
             ELSE lastLines(front, k - last.n) \o <<last>>

----------------------------------------------------------------------------
(* Pipeline: the betterclaw.event handler and processEvent *)

Procs == 1..MaxEvents

idleProc ==
    [pc |-> "idle", params |-> Null, event |-> Null, decision |-> Null,
     llm |-> Null, entry |-> Null, appended |-> FALSE, delivery |-> "none",
     snap |-> Null, trace |-> <<>>, response |-> "none", prompt |-> Null]

\* the event the handler builds from the request's params
buildEvent(params, t) ==
    [subscriptionId |-> Val(Coalesce(params.subscriptionId, Some(""))),
     source |-> Val(Coalesce(params.source, Some(""))),
     data |-> params.data,
     metadata |-> params.metadata,
     firedAt |-> Val(Coalesce(params.firedAt, Some(t)))]

\* variant: only the subscriptionId is required
validParamsSubscriptionOnly(event) == event.subscriptionId # ""

\* !event.subscriptionId || !event.source answers INVALID_PARAMS
validParams(event) == event.subscriptionId # "" /\ event.source # ""

logEntry(event, d, t) ==
    [event |-> event,
     decision |-> IF d.action = "push" THEN "push"
                  ELSE IF d.action = "defer" THEN "defer" ELSE "drop",
     reason |-> d.reason,
     timestamp |-> t]

\* variant: the handler does not wait for init
initPendingIgnored == FALSE

\* if (!initialized) await initPromise
initPending == ~initialized

\* variant: a push decision is delivered before it is logged
afterEvaluateDeliverFirst(d) ==
    IF d.action = "ambiguous" THEN "judging"
    ELSE IF d.action = "push" THEN "delivering" ELSE "appending"

\* processEvent's suspension point after rules.evaluate
afterEvaluate(d) == IF d.action = "ambiguous" THEN "judging" ELSE "appending"

\* variant: a deferred event is delivered like a push
afterAppendDeferDelivered(d) ==
    IF d.action \in {"push", "defer"} THEN "delivering" ELSE "saving"

\* processEvent's suspension point after events.append
afterAppend(d) == IF d.action = "push" THEN "delivering" ELSE "saving"

\* variant: a failed delivery ends processEvent
afterDeliveryAbort(outcome) == IF outcome = "ok" THEN "saving" ELSE "failed"

\* processEvent after the delivery command: the catch absorbs a failure
afterDelivery(outcome) == "saving"

\* what processEvent calls on entering a suspension point
callsOn(pc) ==
    CASE pc = "judging" -> <<"judgment">>
      [] pc = "appending" -> <<"append">>
      [] pc = "delivering" -> <<"recordFired", "recordPush", "deliver">>
      [] pc = "saving" -> <<"save">>
      [] OTHER -> <<>>

\* The handler has returned: its locals are gone.
returned(pr, status) ==
    [idleProc EXCEPT !.pc = status, !.delivery = pr.delivery, !.response = pr.response]

\* processEvent has rejected at the named await; the handler's catch logs
\* "betterclaw.event handler error: ..." and returns
handlerCatch(step) == "failed"

\* The handler from building the event to processEvent's first await.
Begin(p, params) ==
    LET event == buildEvent(params, now)
        ctx1 == updateFromEvent(context, event)
        d == evaluate(event, ctx1, lastFired, config.pushBudgetPerDay, config.tzOffset)
        to == afterEvaluate(d)
    IN  IF ~validParams(event)
        THEN /\ proc' = [proc EXCEPT ![p] =
                    returned([proc[p] EXCEPT !.response = "INVALID_PARAMS"], "rejected")]
             /\ UNCHANGED <<context, lastFired>>
        ELSE /\ context' = ctx1
             /\ proc' = [proc EXCEPT ![p] =
                    [@ EXCEPT !.pc = to, !.params = Null, !.response = "accepted",
                              !.event = Some(event), !.decision = Some(d),
                              !.entry = IF to = "appending"
                                        THEN Some(logEntry(event, d, now)) ELSE Null,
                              !.prompt = IF to = "judging"
                                         THEN Some(buildPrompt(event, ctx1,
                                                       ctx1.meta.pushesToday,
                                                       config.pushBudgetPerDay, now))
                                         ELSE Null,
                              !.trace = <<"updateFromEvent", "evaluate">> \o callsOn(to)]]
             /\ UNCHANGED lastFired

\* on entering "delivering": rules.recordFired, context.recordPush, the command
Enter(p, to, pr) ==
    /\ proc' = [proc EXCEPT ![p] = [pr EXCEPT !.pc = to, !.trace = @ \o callsOn(to)]]
    /\ IF to = "delivering"
       THEN /\ lastFired' = recordFired(lastFired, Val(pr.event).subscriptionId,
                                        Val(pr.event).firedAt)
            /\ context' = recordPush(context, now)
       ELSE UNCHANGED <<lastFired, context>>

Arrive(p, params) ==
    /\ proc[p].pc = "idle"
    /\ \A q \in Procs : q < p => proc[q].pc # "idle"
    /\ IF initPending
       THEN /\ proc' = [proc EXCEPT ![p].pc = "awaitInit", ![p].params = Some(params)]
            /\ UNCHANGED <<context, lastFired>>
       ELSE Begin(p, params)
    /\ UNCHANGED <<lastAttempt, config, now, initialized, initPc, contextFile, logFile,
                   patternsFile, compute, checkAll, service>>

ResumeAfterInit(p) ==
    /\ proc[p].pc = "awaitInit"
    /\ initPc = "done"
    /\ Begin(p, Val(proc[p].params))
    /\ UNCHANGED <<lastAttempt, config, now, initialized, initPc, contextFile, logFile,
                   patternsFile, compute, checkAll, service>>

\* with no provider/model the LLM is not invoked at all
NotInvoked == [kind |-> "not invoked", text |-> <<>>]

JudgmentReturns(p, outcome) ==
    /\ proc[p].pc = "judging"
    /\ LET result == judgmentEvaluate(config.llmModel, outcome)
           d == [action |-> IF result.push THEN "push" ELSE "drop",
                 reason |-> <<"llm: ">> \o result.reason]
       IN  proc' = [proc EXCEPT ![p] =
               [@ EXCEPT !.pc = "appending", !.decision = Some(d), !.prompt = Null,
                         !.llm = Some(IF modelConfigured(config.llmModel)
                                      THEN outcome ELSE NotInvoked),
                         !.entry = Some(logEntry(Val(proc[p].event), d, now)),
                         !.trace = @ \o callsOn("appending")]]
    /\ UNCHANGED <<lastAttempt, config, now, initialized, initPc, context, lastFired, contextFile,
                   logFile, patternsFile, compute, checkAll, service>>

AppendCompletes(p, ok) ==
    /\ proc[p].pc = "appending"
    /\ IF ok
       THEN /\ logFile' = append(logFile, Val(proc[p].entry))
            /\ Enter(p, afterAppend(Val(proc[p].decision)),
                     [proc[p] EXCEPT !.appended = TRUE])
       ELSE /\ proc' = [proc EXCEPT ![p] = returned(proc[p], handlerCatch("append"))]
            /\ UNCHANGED <<logFile, lastFired, context>>
    /\ UNCHANGED <<lastAttempt, config, now, initialized, initPc, contextFile,
                   patternsFile, compute, checkAll, service>>

DeliveryCompletes(p, outcome) ==
    /\ proc[p].pc = "delivering"
    /\ Enter(p, afterDelivery(outcome),
             [proc[p] EXCEPT !.delivery = IF outcome = "ok" THEN "ok" ELSE "failed"])
    /\ UNCHANGED <<lastAttempt, config, now, initialized, initPc, contextFile, logFile,
                   patternsFile, compute, checkAll, service>>

\* save(): mkdir is done, JSON.stringify(this.context) is taken, writeFile starts
SaveSerialize(p) ==
    /\ proc[p].pc = "saving"
    /\ proc' = [proc EXCEPT ![p].pc = "writing", ![p].snap = Some(context)]
    /\ UNCHANGED <<lastAttempt, config, now, initialized, initPc, context, lastFired, contextFile,
                   logFile, patternsFile, compute, checkAll, service>>

SaveWrite(p, ok) ==
    /\ proc[p].pc = "writing"
    /\ IF ok
       THEN /\ contextFile' = proc[p].snap
            /\ proc' = [proc EXCEPT ![p] = returned(proc[p], "done")]
       ELSE /\ proc' = [proc EXCEPT ![p] = returned(proc[p], handlerCatch("save"))]
            /\ UNCHANGED contextFile
    /\ UNCHANGED <<lastAttempt, config, now, initialized, initPc, context, lastFired,
                   logFile, patternsFile, compute, checkAll, service>>

----------------------------------------------------------------------------
(* Startup init: load the context, restore the cooldowns *)

pushRecords(entries) ==
    LET pushes == SelectSeq(entries, LAMBDA e : e.decision = "push")
    IN  [i \in 1..Len(pushes) |->
            [subscriptionId |-> pushes[i].event.subscriptionId,
             firedAt |-> pushes[i].event.firedAt]]

\* ctxManager.load(): the file's content, or the empty context
InitLoad ==
    /\ initPc = "load"
    /\ context' = IF contextFile # Null THEN Val(contextFile) ELSE empty
    /\ initPc' = "restore"
    /\ UNCHANGED <<lastAttempt, config, now, initialized, lastFired, contextFile, logFile,
                   patternsFile, proc, compute, checkAll, service>>

InitRestore ==
    /\ initPc = "restore"
    /\ lastFired' = restoreCooldowns(lastFired,
                        pushRecords(Expand(readSince(logFile, now - DAY))))
    /\ initialized' = TRUE
    /\ initPc' = "done"
    /\ UNCHANGED <<lastAttempt, config, now, context, contextFile, logFile,
                   patternsFile, proc, compute, checkAll, service>>

----------------------------------------------------------------------------
(* Clock *)

TickStep == 7200

Tick ==
    /\ now + TickStep <= T0 + MaxTicks * TickStep
    /\ now' = now + TickStep
    /\ UNCHANGED <<lastAttempt, config, initialized, initPc, context, lastFired, contextFile,
                   logFile, patternsFile, proc, compute, checkAll, service>>

----------------------------------------------------------------------------
(* Dates in the host's time zone, and fractions *)

\* Date.getDay(): 0 is Sunday; 1970-01-01 was a Thursday
getDay(t, tzOffset) == (((t + tzOffset) \div DAY) + 4) % 7

getMinutes(t, tzOffset) == ((t + tzOffset) \div 60) % 60

\* getHours() + getMinutes() / 60, counted in minutes
hourOfDay(t, tzOffset) == getHours(t, tzOffset) * 60 + getMinutes(t, tzOffset)

RECURSIVE GCD(_, _)
GCD(a, b) == IF b = 0 THEN a ELSE GCD(b, a % b)

\* the quotient n / d of two non-negative numbers, d > 0, in lowest terms
Rat(n, d) == LET g == GCD(n, d) IN [num |-> n \div g, den |-> d \div g]

Min(a, b) == IF a <= b THEN a ELSE b

----------------------------------------------------------------------------
(* Pattern engine: what compute() derives from the entries of the window.  *)
(* The entries are runs; a list of values is a list of [v, n]: n times v.   *)

emptyPatterns ==
    [locationRoutines |-> [weekday |-> <<>>, weekend |-> <<>>],
     healthTrends |-> [stepsAvg7d |-> Null, stepsAvg30d |-> Null, stepsTrend |-> Null,
                       sleepAvg7d |-> Null, sleepTrend |-> Null,
                       restingHrAvg7d |-> Null, restingHrTrend |-> Null],
     batteryPatterns |-> [avgDrainPerHour |-> Null, typicalChargeTime |-> Null,
                          lowBatteryFrequency |-> Null],
     eventStats |-> [eventsPerDay7d |-> Rat(0, 1), pushesPerDay7d |-> Rat(0, 1),
                     dropRate7d |-> Rat(0, 1), topSources |-> <<>>],
     triggerCooldowns |-> <<>>,
     computedAt |-> 0]

RECURSIVE sumOf(_)
sumOf(values) ==
    IF values = <<>> THEN 0 ELSE Head(values).v * Head(values).n + sumOf(Tail(values))

average(values) ==
    IF lineCount(values) = 0 THEN Null
    ELSE Some(Rat(sumOf(values), lineCount(values)))

\* sorted copy of a list of numbers
RECURSIVE sortAsc(_)
sortAsc(values) ==
    IF values = <<>> THEN <<>>
    ELSE LET x == Head(values)
             rest == sortAsc(Tail(values))
             below == SelectSeq(rest, LAMBDA y : y <= x)
             above == SelectSeq(rest, LAMBDA y : y > x)
         IN  below \o <<x>> \o above

\* twice the median (the mean of the two middle values is then whole)
median(values) ==
    LET sorted == sortAsc(values)
        mid == Len(sorted) \div 2
    IN  IF Len(sorted) % 2 = 1 THEN 2 * sorted[mid + 1]
        ELSE sorted[mid] + sorted[mid + 1]

\* "HH:MM" of an hour given in half minutes: floor for the hours, round for
\* the minutes (a half rounds up)
formatHour(h) == [hh |-> h \div 120, mm |-> ((h % 120) + 1) \div 2]

computeTrend(recent, baseline) ==
    IF recent = Null \/ baseline = Null THEN Null
    ELSE LET r == Val(recent)
             b == Val(baseline)
         IN  IF r.num * b.den * 10 > 11 * b.num * r.den THEN Some("improving")
             ELSE IF r.num * b.den * 10 < 9 * b.num * r.den THEN Some("declining")
             ELSE Some("stable")

\* variant: resting heart rate is labelled like steps and sleep
computeInverseTrendAsTrend(recent, baseline) ==
    IF recent = Null \/ baseline = Null THEN Null
    ELSE LET r == Val(recent)
             b == Val(baseline)
         IN  IF r.num * b.den * 10 > 11 * b.num * r.den THEN Some("improving")
             ELSE IF r.num * b.den * 10 < 9 * b.num * r.den THEN Some("declining")
             ELSE Some("stable")

computeInverseTrend(recent, baseline) ==
    IF recent = Null \/ baseline = Null THEN Null
    ELSE LET r == Val(recent)
             b == Val(baseline)
         IN  IF r.num * b.den * 10 > 11 * b.num * r.den THEN Some("declining")
             ELSE IF r.num * b.den * 10 < 9 * b.num * r.den THEN Some("improving")
             ELSE Some("stable")

\* entries.map(e => e.event.data[k]).filter(v => v != null)
metricValues(runs, k) ==
    LET have == SelectSeq(runs, LAMBDA r : k \in DOMAIN r.e.event.data)
    IN  [i \in 1..Len(have) |-> [v |-> have[i].e.event.data[k], n |-> have[i].n]]

computeHealthTrends(runs, t) ==
    LET healthEvents == SelectSeq(runs, LAMBDA r : startsWithHealth(r.e.event.source))
        last7d == SelectSeq(healthEvents, LAMBDA r : r.e.event.firedAt >= t - 7 * DAY)
        last30d == healthEvents
        stepsAvg7d == average(metricValues(last7d, "stepsToday"))
        stepsAvg30d == average(metricValues(last30d, "stepsToday"))
        sleepAvg7d == average(metricValues(last7d, "sleepDurationSeconds"))
        sleepAvg30d == average(metricValues(last30d, "sleepDurationSeconds"))
        rhrAvg7d == average(metricValues(last7d, "restingHeartRate"))
        rhrAvg30d == average(metricValues(last30d, "restingHeartRate"))
    IN  [stepsAvg7d |-> stepsAvg7d,
         stepsAvg30d |-> stepsAvg30d,
         stepsTrend |-> computeTrend(stepsAvg7d, stepsAvg30d),
         sleepAvg7d |-> sleepAvg7d,
         sleepTrend |-> computeTrend(sleepAvg7d, sleepAvg30d),
         restingHrAvg7d |-> rhrAvg7d,
         restingHrTrend |-> computeInverseTrend(rhrAvg7d, rhrAvg30d)]

computeBatteryPatterns(runs) ==
    LET lowBatteryEvents ==
            SelectSeq(runs, LAMBDA r : r.e.event.subscriptionId \in
                                {"default.battery-low", "default.battery-critical"})
        span == IF runs = <<>> THEN 0
                ELSE runs[Len(runs)].e.timestamp - runs[1].e.timestamp
    IN  [avgDrainPerHour |-> Null,
         typicalChargeTime |-> Null,
         lowBatteryFrequency |-> Some(Rat(lineCount(lowBatteryEvents) * DAY, Max(DAY, span)))]

\* the keys of the Map of counts, in insertion order
RECURSIVE firstSeen(_, _)
firstSeen(runs, seen) ==
    IF runs = <<>> THEN seen
    ELSE LET s == Head(runs).e.event.source
         IN  firstSeen(Tail(runs), IF Occurs(s, seen) THEN seen ELSE Append(seen, s))

sourceCount(runs, s) == lineCount(SelectSeq(runs, LAMBDA r : r.e.event.source = s))

\* the five most frequent sources; the sort is stable
topSources(runs) ==
    LET srcs == firstSeen(runs, <<>>)
        before(j, i) ==
            \/ sourceCount(runs, srcs[j]) > sourceCount(runs, srcs[i])
            \/ sourceCount(runs, srcs[j]) = sourceCount(runs, srcs[i]) /\ j < i
        rank(i) == Cardinality({j \in 1..Len(srcs) : before(j, i)})
    IN  [k \in 1..Min(5, Len(srcs)) |->
            srcs[CHOOSE i \in 1..Len(srcs) : rank(i) = k - 1]]

computeEventStats(runs, t) ==
    LET last7d == SelectSeq(runs, LAMBDA r : r.e.timestamp >= t - 7 * DAY)
        pushes == SelectSeq(last7d, LAMBDA r : r.e.decision = "push")
        drops == SelectSeq(last7d, LAMBDA r : r.e.decision = "drop")
        total == lineCount(last7d)
    IN  [eventsPerDay7d |-> Rat(total, 7),
         pushesPerDay7d |-> Rat(lineCount(pushes), 7),
         dropRate7d |-> IF total > 0 THEN Rat(lineCount(drops), total) ELSE Rat(0, 1),
         topSources |-> topSources(last7d)]

zoneOf(entry) == Val(Coalesce(Get(entry.event.metadata, "zoneName"), Some("Unknown")))

\* the keys of a zones Map, in insertion order
RECURSIVE zonesSeen(_, _)
zonesSeen(entries, seen) ==
    IF entries = <<>> THEN seen
    ELSE LET z == zoneOf(Head(entries))
         IN  zonesSeen(Tail(entries), IF Occurs(z, seen) THEN seen ELSE Append(seen, z))

formatRoutines(entries, tzOffset) ==
    LET zones == zonesSeen(entries, <<>>)
        hours(zone, enter) ==
            LET of == SelectSeq(entries, LAMBDA e :
                          zoneOf(e) = zone /\ (Get(e.event.data, "type") = Some(1)) = enter)
            IN  [i \in 1..Len(of) |-> hourOfDay(of[i].event.firedAt, tzOffset)]
    IN  [i \in 1..Len(zones) |->
            [zone |-> zones[i],
             typicalArrive |-> IF hours(zones[i], TRUE) # <<>>
                               THEN Some(formatHour(median(hours(zones[i], TRUE))))
                               ELSE Null,
             typicalLeave |-> IF hours(zones[i], FALSE) # <<>>
                              THEN Some(formatHour(median(hours(zones[i], FALSE))))
                              ELSE Null]]

computeLocationRoutines(runs, tzOffset) ==
    LET geofenceEvents ==
            Expand(SelectSeq(runs, LAMBDA r : r.e.event.source = "geofence.triggered"))
        isWeekend(e) == getDay(e.event.firedAt, tzOffset) \in {0, 6}
    IN  [weekday |-> formatRoutines(SelectSeq(geofenceEvents, LAMBDA e : ~isWeekend(e)),
                                    tzOffset),
         weekend |-> formatRoutines(SelectSeq(geofenceEvents, isWeekend), tzOffset)]

\* variant: compute() writes a document with fresh triggerCooldowns
computePatternsFresh(runs, existing, t, tzOffset) ==
    [locationRoutines |-> computeLocationRoutines(runs, tzOffset),
     healthTrends |-> computeHealthTrends(runs, t),
     batteryPatterns |-> computeBatteryPatterns(runs),
     eventStats |-> computeEventStats(runs, t),
     triggerCooldowns |-> emptyPatterns.triggerCooldowns,
     computedAt |-> t]

\* the document compute() writes
computePatterns(runs, existing, t, tzOffset) ==
    [locationRoutines |-> computeLocationRoutines(runs, tzOffset),
     healthTrends |-> computeHealthTrends(runs, t),
     batteryPatterns |-> computeBatteryPatterns(runs),
     eventStats |-> computeEventStats(runs, t),
     triggerCooldowns |-> existing.triggerCooldowns,
     computedAt |-> t]

\* variant: the cut keeps the first MAX_LINES of the fresh entries
rotateKeptOldest(runs, t) ==
    LET cutoff == t - MAX_AGE
        fresh == SelectSeq(runs, LAMBDA r : r.e.timestamp >= cutoff)
        rev(q) == [i \in 1..Len(q) |-> q[Len(q) + 1 - i]]
    IN  rev(lastLines(rev(fresh), MAX_LINES))

\* EventLog.rotate(): what it writes, given what it read
rotateKept(runs, t) ==
    LET cutoff == t - MAX_AGE
        fresh == SelectSeq(runs, LAMBDA r : r.e.timestamp >= cutoff)
    IN  lastLines(fresh, MAX_LINES)

----------------------------------------------------------------------------
(* Proactive engine: the five triggers and checkAll *)

TriggerIds ==
    <<"low-battery-away", "unusual-inactivity", "sleep-deficit", "routine-deviation",
      "health-weekly-digest">>

TRIGGER_COOLDOWNS(id) ==
    CASE id = "low-battery-away" -> 4 * 3600
      [] id = "unusual-inactivity" -> 6 * 3600
      [] id = "sleep-deficit" -> 24 * 3600
      [] id = "routine-deviation" -> 4 * 3600
      [] id = "health-weekly-digest" -> 7 * 86400
      [] OTHER -> 3600

lowBatteryAway(ctx) ==
    /\ ctx.device.battery # Null
    /\ ~(Val(ctx.device.battery).level >= 30)
    /\ ctx.activity.currentZone # Some("Home")

\* ctx.device.health?.[k], null when there is no health record
healthOf(ctx, k) == IF ctx.device.health = Null THEN Null ELSE Val(ctx.device.health)[k]

\* fires when steps < avg * (hour / 24) * 0.5
unusualInactivity(ctx, patterns, t, tzOffset) ==
    LET hour == getHours(t, tzOffset)
        steps == healthOf(ctx, "stepsToday")
        avg == patterns.healthTrends.stepsAvg7d
    IN  /\ ~(hour < 12)
        /\ steps # Null /\ avg # Null
        /\ ~(Val(steps) * 48 * Val(avg).den >= Val(avg).num * hour)

\* fires when avg - sleep >= 3600
sleepDeficit(ctx, patterns, t, tzOffset) ==
    LET hour == getHours(t, tzOffset)
        sleep == healthOf(ctx, "sleepDurationSeconds")
        avg == patterns.healthTrends.sleepAvg7d
    IN  /\ ~(hour < 7 \/ hour > 10)
        /\ sleep # Null /\ avg # Null
        /\ ~(Val(avg).num - Val(sleep) * Val(avg).den < 3600 * Val(avg).den)

\* fires when still in a zone more than 1.5 h after its typical leave time
routineDeviation(ctx, patterns, t, tzOffset) ==
    LET day == getDay(t, tzOffset)
        hour == hourOfDay(t, tzOffset)
        routines == patterns.locationRoutines.weekday
    IN  /\ day >= 1 /\ day <= 5
        /\ \E i \in 1..Len(routines) :
              /\ routines[i].typicalLeave # Null
              /\ ctx.activity.currentZone = Some(routines[i].zone)
              /\ hour > Val(routines[i].typicalLeave).hh * 60
                        + Val(routines[i].typicalLeave).mm + 90

\* the digest always has its events line
healthWeeklyDigest(ctx, patterns, t, tzOffset) ==
    LET hour == getHours(t, tzOffset)
    IN  /\ getDay(t, tzOffset) = 0
        /\ ~(hour < 9 \/ hour > 11)

\* trigger.check(ctx, patterns) returns a result
triggerCheck(id, ctx, patterns, t, tzOffset) ==
    CASE id = "low-battery-away" -> lowBatteryAway(ctx)
      [] id = "unusual-inactivity" -> unusualInactivity(ctx, patterns, t, tzOffset)
      [] id = "sleep-deficit" -> sleepDeficit(ctx, patterns, t, tzOffset)
      [] id = "routine-deviation" -> routineDeviation(ctx, patterns, t, tzOffset)
      [] id = "health-weekly-digest" -> healthWeeklyDigest(ctx, patterns, t, tzOffset)

\* patterns.triggerCooldowns[id] ?? 0
cooldownAt(patterns, id) == Val(Coalesce(Get(patterns.triggerCooldowns, id), Some(0)))

\* patterns.triggerCooldowns[id] = t
withCooldown(patterns, id, t) ==
    [patterns EXCEPT !.triggerCooldowns =
        [k \in DOMAIN patterns.triggerCooldowns \cup {id} |->
            IF k = id THEN t ELSE patterns.triggerCooldowns[k]]]

\* the loop of checkAll from trigger number from on: the first trigger that
\* is out of its cooldown and whose check returns a result, 0 when none
RECURSIVE nextFiring(_, _, _, _, _)
nextFiring(from, ctx, patterns, t, tzOffset) ==
    IF from > Len(TriggerIds) THEN 0
    ELSE LET id == TriggerIds[from]
         IN  IF t - cooldownAt(patterns, id) < TRIGGER_COOLDOWNS(id)
             THEN nextFiring(from + 1, ctx, patterns, t, tzOffset)
             ELSE IF ~triggerCheck(id, ctx, patterns, t, tzOffset)
             THEN nextFiring(from + 1, ctx, patterns, t, tzOffset)
             ELSE from

\* seen: the context state the first pass of the loop evaluated the triggers on
idleCheckAll ==
    [pc |-> "idle", stale |-> FALSE, patterns |-> Null, idx |-> 0, delivery |-> "none",
     seen |-> Null]

\* ctx = this.context.get() is a reference: the live context, unless it was
\* taken before load() replaced the constructor's (never changed) object
ctxOf(ca) == IF ca.stale THEN empty ELSE context

\* no delivery command has been run yet
noAttempts == [id \in {TriggerIds[i] : i \in 1..Len(TriggerIds)} |-> Null]

\* variant: the command is run before the cooldown is written
afterFireDeliverFirst == "delivering"

\* checkAll's suspension point after a trigger fired: writePatterns
afterFire == "writing"

\* checkAll's loop up to its next await, or to its end
scan(ca, from) ==
    LET i == nextFiring(from, ctxOf(ca), Val(ca.patterns), now, config.tzOffset)
    IN  IF i = 0
        THEN idleCheckAll
        ELSE [ca EXCEPT !.pc = afterFire, !.idx = i,
                        !.patterns = Some(withCooldown(Val(ca.patterns), TriggerIds[i], now))]

\* a timer of the proactive engine fires: the hourly interval or the one-shot
CheckAllStart(timer) ==
    /\ service.checks < MaxChecks
    /\ checkAll.pc = "idle"
    /\ IF timer = "interval" THEN service.checkInterval ELSE service.initialCheck
    /\ service' = [service EXCEPT !.checks = @ + 1,
                                  !.initialCheck = IF timer = "initial" THEN FALSE ELSE @]
    /\ checkAll' = [idleCheckAll EXCEPT !.pc = "readPatterns", !.stale = (initPc = "load")]
    /\ UNCHANGED <<lastAttempt, config, now, initialized, initPc, context, lastFired, contextFile,
                   logFile, patternsFile, proc, compute>>

CheckAllRead ==
    /\ checkAll.pc = "readPatterns"
    /\ checkAll' = scan([checkAll EXCEPT !.patterns =
                            Some(IF patternsFile # Null THEN Val(patternsFile)
                                 ELSE emptyPatterns),
                            !.seen = Some(ctxOf(checkAll))], 1)
    /\ UNCHANGED <<lastAttempt, config, now, initialized, initPc, context, lastFired, contextFile,
                   logFile, patternsFile, proc, compute, service>>

CheckAllWrite(ok) ==
    /\ checkAll.pc = "writing"
    /\ IF ok
       THEN /\ patternsFile' = checkAll.patterns
            /\ checkAll' = [checkAll EXCEPT !.pc = "delivering"]
            /\ lastAttempt' = [lastAttempt EXCEPT ![TriggerIds[checkAll.idx]] = Some(now)]
       ELSE /\ checkAll' = idleCheckAll
            /\ UNCHANGED <<patternsFile, lastAttempt>>
    /\ UNCHANGED <<config, now, initialized, initPc, context, lastFired, contextFile,
                   logFile, proc, compute, service>>

CheckAllDeliver(outcome) ==
    /\ checkAll.pc = "delivering"
    /\ checkAll' = scan([checkAll EXCEPT !.delivery =
                            IF outcome = "ok" THEN "ok" ELSE "failed"],
                        checkAll.idx + 1)
    /\ UNCHANGED <<lastAttempt, config, now, initialized, initPc, context, lastFired, contextFile,
                   logFile, patternsFile, proc, compute, service>>

----------------------------------------------------------------------------
(* Pattern engine: the steps of compute(), with rotate() at its end *)

idleCompute ==
    [pc |-> "idle", windowStart |-> 0, entries |-> <<>>, doc |-> Null, kept |-> <<>>,
     removed |-> 0]

\* compute() up to its first await
startCompute == [idleCompute EXCEPT !.pc = "readLog",
                                    !.windowStart = now - config.patternWindowDays * DAY]

ComputeStart ==
    /\ service.computeInterval
    /\ service.computes < MaxComputes
    /\ compute.pc = "idle"
    /\ compute' = startCompute
    /\ service' = [service EXCEPT !.computes = @ + 1]
    /\ UNCHANGED <<lastAttempt, config, now, initialized, initPc, context, lastFired, contextFile,
                   logFile, patternsFile, proc, checkAll>>

ComputeReadLog ==
    /\ compute.pc = "readLog"
    /\ compute' = [compute EXCEPT !.pc = "readPatterns",
                                  !.entries = readSince(logFile, compute.windowStart)]
    /\ UNCHANGED <<lastAttempt, config, now, initialized, initPc, context, lastFired, contextFile,
                   logFile, patternsFile, proc, checkAll, service>>

ComputeReadPatterns ==
    /\ compute.pc = "readPatterns"
    /\ LET existing == IF patternsFile # Null THEN Val(patternsFile) ELSE emptyPatterns
       IN  compute' = [compute EXCEPT
               !.pc = "writing", !.entries = <<>>,
               !.doc = Some(computePatterns(compute.entries, existing, now,
                                            config.tzOffset))]
    /\ UNCHANGED <<lastAttempt, config, now, initialized, initPc, context, lastFired, contextFile,
                   logFile, patternsFile, proc, checkAll, service>>

ComputeWrite(ok) ==
    /\ compute.pc = "writing"
    /\ IF ok
       THEN /\ patternsFile' = compute.doc
            /\ compute' = [idleCompute EXCEPT !.pc = "rotateRead"]
       ELSE /\ compute' = idleCompute
            /\ UNCHANGED patternsFile
    /\ UNCHANGED <<lastAttempt, config, now, initialized, initPc, context, lastFired, contextFile,
                   logFile, proc, checkAll, service>>

\* rotate(): readAll resolves; at most MAX_LINES entries: return 0; otherwise
\* kept and removed are computed and writeFile starts
RotateRead ==
    /\ compute.pc = "rotateRead"
    /\ LET entries == readAll(logFile)
           kept == rotateKept(entries, now)
       IN  compute' = IF lineCount(entries) <= MAX_LINES THEN idleCompute
                      ELSE [compute EXCEPT !.pc = "rotateWrite", !.entries = entries,
                                           !.kept = kept,
                                           !.removed = lineCount(entries) - lineCount(kept)]
    /\ UNCHANGED <<lastAttempt, config, now, initialized, initPc, context, lastFired, contextFile,
                   logFile, patternsFile, proc, checkAll, service>>

RotateWrite(ok) ==
    /\ compute.pc = "rotateWrite"
    /\ logFile' = IF ok THEN compute.kept ELSE logFile
    /\ compute' = idleCompute
    /\ UNCHANGED <<lastAttempt, config, now, initialized, initPc, context, lastFired, contextFile,
                   patternsFile, proc, checkAll, service>>

----------------------------------------------------------------------------
(* Background service *)

idleService ==
    [state |-> "new", computeInterval |-> FALSE, checkInterval |-> FALSE,
     initialCheck |-> FALSE, computes |-> 0, checks |-> 0]

\* start(): compute() runs at once, the timers are set
ServiceStart ==
    /\ service.state = "new"
    /\ compute' = startCompute
    /\ service' = [service EXCEPT !.state = "started", !.computeInterval = TRUE,
                                  !.checkInterval = config.proactiveEnabled,
                                  !.initialCheck = config.proactiveEnabled]
    /\ UNCHANGED <<lastAttempt, config, now, initialized, initPc, context, lastFired, contextFile,
                   logFile, patternsFile, proc, checkAll>>

\* stop(): both intervals are cleared
ServiceStop ==
    /\ service.state = "started"
    /\ service' = [service EXCEPT !.state = "stopped", !.computeInterval = FALSE,
                                  !.checkInterval = FALSE]
    /\ UNCHANGED <<lastAttempt, config, now, initialized, initPc, context, lastFired, contextFile,
                   logFile, patternsFile, proc, compute, checkAll>>

----------------------------------------------------------------------------
(* Inputs *)

LlmModels == {<<"openai", "gpt-4o-mini">>, <<"openai">>}

Configs ==
    { c \in [llmModel : LlmModels, pushBudgetPerDay : 1..MaxBudget,
             patternWindowDays : {14}, proactiveEnabled : {TRUE}, tzOffset : {0}] :
        modelConfigured(c.llmModel) \/ c.pushBudgetPerDay = MaxBudget }

Params(sub, src, data, meta, at) ==
    [subscriptionId |-> sub, source |-> src, data |-> data, metadata |-> meta,
     firedAt |-> at]

ParamsPool ==
    { Params(Some("default.geofence"), Some("geofence.triggered"),
             [type |-> 1, latitude |-> 48, longitude |-> 11], [zoneName |-> "Home"],
             Some(T0)),
      Params(Some("default.battery-low"), Some("device.battery"),
             [level |-> 15], <<>>, Null),
      Params(Some("default.battery-critical"), Some("device.battery"),
             [level |-> 8, _debugFired |-> 1], <<>>, Some(T0 - 600)),
      Params(Some("default.daily-health"), Some("health.summary"),
             [stepsToday |-> 5000], <<>>, Some(T0 + 5 * 3600)),
      Params(Some("custom.something"), Some("custom.source"),
             [value |-> 42], <<>>, Some(T0)),
      Params(Some("custom.something"), Some("custom.source"),
             [value |-> 42], <<>>, Some(T0 + 1800)),
      Params(Some("custom.something"), Null, <<>>, <<>>, Some(T0)),
      Params(Some(""), Some("device.battery"), [level |-> 15], <<>>, Some(T0)) }

LlmOutcomes ==
    { [kind |-> k, text |-> <<>>] : k \in {"unavailable", "error", "timeout", "payloads"} }
    \cup
    { [kind |-> "payloads", text |-> t] :
        t \in { <<"{push:true,reason:r}">>, <<"{push:false,reason:r}">>,
                <<"<fence>json", "{push:false,reason:r}", "<fence>">>,
                <<"Sure! Here is the JSON">>, <<"{reason:r}">>, <<"null">> } }

DeliveryOutcomes == {"ok", "nonzero", "throws"}

\* what an earlier run of the plugin left on disk: one pushed event
PriorEvent ==
    buildEvent(Params(Some("custom.something"), Some("custom.source"),
                      [value |-> 41], <<>>, Some(T0 - 900)), T0 - 900)

PriorEntry ==
    logEntry(PriorEvent, [action |-> "push", reason |-> <<"llm: ", "no reason given">>],
             T0 - 900)

PriorContext == recordPush(updateFromEvent(empty, PriorEvent), T0 - 900)

Disks ==
    { [contextFile |-> Null, logFile |-> <<>>],
      [contextFile |-> Some(PriorContext), logFile |-> append(<<>>, PriorEntry)] }

Init ==
    /\ config \in Configs
    /\ now = T0
    /\ initialized = FALSE
    /\ initPc = "load"
    /\ context = empty
    /\ lastFired = <<>>
    /\ \E d \in Disks : contextFile = d.contextFile /\ logFile = d.logFile
    /\ patternsFile = Null
    /\ proc = [p \in Procs |-> idleProc]
    /\ compute = idleCompute
    /\ checkAll = idleCheckAll
    /\ service = idleService
    /\ lastAttempt = noAttempts

Next ==
    \/ InitLoad
    \/ InitRestore
    \/ \E p \in Procs, params \in ParamsPool : Arrive(p, params)
    \/ \E p \in Procs : ResumeAfterInit(p)
    \/ \E p \in Procs, o \in LlmOutcomes : JudgmentReturns(p, o)
    \/ \E p \in Procs, ok \in BOOLEAN : AppendCompletes(p, ok)
    \/ \E p \in Procs, o \in DeliveryOutcomes : DeliveryCompletes(p, o)
    \/ \E p \in Procs : SaveSerialize(p)
    \/ \E p \in Procs, ok \in BOOLEAN : SaveWrite(p, ok)

Spec == Init /\ [][Next]_vars

----------------------------------------------------------------------------
(* The background engines beside one event handler *)

PatternConfigs == { c \in Configs : modelConfigured(c.llmModel) /\ c.pushBudgetPerDay = MaxBudget }

PatternParams ==
    { Params(Some("default.geofence"), Some("geofence.triggered"),
             [type |-> 1, latitude |-> 48, longitude |-> 11], [zoneName |-> "Home"],
             Some(T0)) }

\* what earlier runs left on disk: a full log of old entries, then a morning
\* exit from the office and a health summary two days ago
entryOf(params, decision, reason) ==
    logEntry(buildEvent(params, Val(params.firedAt)),
             [action |-> decision, reason |-> <<reason>>], Val(params.firedAt))

OldEntry ==
    entryOf(Params(Some("default.daily-health"), Some("health.summary"),
                   [stepsToday |-> 9000, sleepDurationSeconds |-> 28800], <<>>,
                   Some(T0 - 31 * DAY)),
            "push", "daily health summary - within morning window")

ExitEntry ==
    entryOf(Params(Some("default.geofence"), Some("geofence.triggered"),
                   [type |-> 0], [zoneName |-> "Office"], Some(T0 - 2 * DAY - 7200)),
            "push", "geofence event - always push")

HealthEntry ==
    entryOf(Params(Some("default.daily-health"), Some("health.summary"),
                   [stepsToday |-> 8000, sleepDurationSeconds |-> 27000], <<>>,
                   Some(T0 - 2 * DAY)),
            "push", "daily health summary - within morning window")

FullLog == <<[e |-> OldEntry, n |-> MAX_LINES - 1], [e |-> ExitEntry, n |-> 1],
             [e |-> HealthEntry, n |-> 1]>>

\* at the office, battery at 15 %
OfficeContext ==
    LET enter == buildEvent(Params(Some("default.geofence"), Some("geofence.triggered"),
                                   [type |-> 1], [zoneName |-> "Office"],
                                   Some(T0 - 3 * 3600)), 0)
        health == buildEvent(Params(Some("default.daily-health"), Some("health.summary"),
                                    [stepsToday |-> 1000],
                                    <<>>, Some(T0 - 2 * 3600)), 0)
        battery == buildEvent(Params(Some("default.battery-low"), Some("device.battery"),
                                     [level |-> 15], <<>>, Some(T0 - 3600)), 0)
    IN  updateFromEvent(updateFromEvent(updateFromEvent(empty, enter), health), battery)

\* the document of a compute six hours ago, low-battery-away fired 3 h ago
OldPatterns ==
    withCooldown(computePatterns(readSince(FullLog, T0 - 6 * 3600 - 14 * DAY),
                                 emptyPatterns, T0 - 6 * 3600, 0),
                 "low-battery-away", T0 - 3 * 3600)

PatternDisks ==
    { [contextFile |-> Null, logFile |-> <<>>, patternsFile |-> Null],
      [contextFile |-> Some(OfficeContext), logFile |-> FullLog,
       patternsFile |-> Some(OldPatterns)] }

\* startup init has completed; the host has not yet started the service
InitPatterns ==
    /\ config \in PatternConfigs
    /\ now = T0
    /\ initialized = TRUE
    /\ initPc = "done"
    /\ \E d \in PatternDisks :
          /\ contextFile = d.contextFile /\ logFile = d.logFile
          /\ patternsFile = d.patternsFile
          /\ context = IF d.contextFile # Null THEN Val(d.contextFile) ELSE empty
          /\ lastFired = restoreCooldowns(<<>>,
                             pushRecords(Expand(readSince(d.logFile, T0 - DAY))))
    /\ proc = [p \in Procs |-> idleProc]
    /\ compute = idleCompute
    /\ checkAll = idleCheckAll
    /\ service = idleService
    /\ lastAttempt = noAttempts

NextPatterns ==
    \/ \E params \in PatternParams : Arrive(1, params)
    \/ \E ok \in BOOLEAN : AppendCompletes(1, ok)
    \/ \E o \in DeliveryOutcomes : DeliveryCompletes(1, o)
    \/ SaveSerialize(1)
    \/ \E ok \in BOOLEAN : SaveWrite(1, ok)
    \/ ServiceStart
    \/ ServiceStop
    \/ ComputeStart
    \/ ComputeReadLog
    \/ ComputeReadPatterns
    \/ \E ok \in BOOLEAN : ComputeWrite(ok)
    \/ RotateRead
    \/ \E ok \in BOOLEAN : RotateWrite(ok)
    \/ \E timer \in {"interval", "initial"} : CheckAllStart(timer)
    \/ CheckAllRead
    \/ \E ok \in BOOLEAN : CheckAllWrite(ok)
    \/ \E o \in DeliveryOutcomes : CheckAllDeliver(o)
    \/ Tick

SpecPatterns == InitPatterns /\ [][NextPatterns]_vars

----------------------------------------------------------------------------
(* Claims about the pipeline, checked under Spec *)

InFlight == {"judging", "appending", "delivering", "saving", "writing"}

inLog(entry) == \E i \in 1..Len(logFile) : logFile[i].e = entry

\* C1: concurrent processEvent invocations are serialized: while one
\* invocation is between applying its event and the end of its save, no other
\* invocation has applied an event.
C1_Serialized ==
    \A p, q \in Procs :
        (p # q /\ proc[p].pc \in InFlight) => proc[q].pc \notin InFlight

\* C2: any two logged push decisions of one subscription, neither a debug
\* event, have firedAt values at least the subscription's cooldown apart.
C2_CooldownSpacing ==
    LET entries == Expand(logFile)
    IN  \A i, j \in 1..Len(entries) :
            ( /\ i < j
              /\ entries[i].decision = "push" /\ entries[j].decision = "push"
              /\ entries[i].event.subscriptionId = entries[j].event.subscriptionId
              /\ ~isDebug(entries[i].event) /\ ~isDebug(entries[j].event) )
            => Abs(entries[i].event.firedAt - entries[j].event.firedAt)
                  >= cooldownOf(entries[i].event.subscriptionId)

\* C3: pushesToday never exceeds the configured pushBudgetPerDay.
C3_BudgetCap == context.meta.pushesToday <= config.pushBudgetPerDay

\* the failure modes of the triage call
TriageFailed(llmModel, outcome) ==
    \/ ~modelConfigured(llmModel)
    \/ outcome.kind \in {"unavailable", "error", "timeout"}
    \/ outcome.text = <<>>
    \/ ~JsonParse(stripFences(outcome.text)).ok

\* C4: fail-open: whenever the triage call failed (model misconfigured,
\* invoker unavailable, error, timeout, empty output, unparsable output) the
\* event's decision is push, and so is the entry that is logged for it.
C4_FailOpen ==
    \A p \in Procs :
        (proc[p].llm # Null /\ TriageFailed(config.llmModel, Val(proc[p].llm)))
        => /\ Val(proc[p].decision).action = "push"
           /\ Val(proc[p].entry).decision = "push"
           /\ (proc[p].appended => inLog(Val(proc[p].entry)))

C4_Witness ==
    \E p \in Procs :
        /\ proc[p].llm = Some([kind |-> "payloads", text |-> <<"Sure! Here is the JSON">>])
        /\ proc[p].appended
        /\ proc[p].pc = "delivering"

\* the order of processEvent's calls, by whether the rules found the event
\* ambiguous and whether the decision is push
CallOrder(ambiguous, push) ==
    <<"updateFromEvent", "evaluate">>
    \o (IF ambiguous THEN <<"judgment">> ELSE <<>>)
    \o <<"append">>
    \o (IF push THEN <<"recordFired", "recordPush", "deliver">> ELSE <<>>)
    \o <<"save">>

\* C5: within one invocation the calls happen in the order updateFromEvent,
\* evaluate, (judgment), append, (recordFired, recordPush, deliver), save; the
\* entry is in the log before delivery is attempted and says push even when
\* delivery then fails.
C5_StrictOrder ==
    \A p \in Procs :
        /\ \E a, b \in BOOLEAN : IsPrefix(proc[p].trace, CallOrder(a, b))
        /\ proc[p].pc = "judging" =>
               Val(proc[p].decision).action = "ambiguous" /\ proc[p].entry = Null
        /\ Occurs("deliver", proc[p].trace) => proc[p].appended
        /\ Occurs("save", proc[p].trace) => proc[p].appended
        /\ proc[p].pc = "delivering" \/ (proc[p].pc \in InFlight /\ proc[p].delivery = "failed")
             => /\ Val(proc[p].entry).decision = "push"
                /\ inLog(Val(proc[p].entry))

C5_Witness ==
    \E p \in Procs :
        /\ proc[p].pc = "writing"
        /\ proc[p].delivery = "failed"
        /\ proc[p].trace = CallOrder(TRUE, TRUE)

\* C6: a delivery failure is absorbed: the command ran once, the step that
\* sees the failure changes neither the log, lastFired nor the context and
\* goes on to save; the logged entry stays push.
C6_DeliveryFailureAbsorbed ==
    /\ [](\A p \in Procs :
            proc[p].delivery = "failed"
            => /\ proc[p].pc \in {"saving", "writing", "done", "failed"}
               /\ proc[p].pc \in InFlight =>
                      /\ CountOf("deliver", proc[p].trace) = 1
                      /\ Occurs("save", proc[p].trace)
                      /\ Val(proc[p].entry).decision = "push"
                      /\ inLog(Val(proc[p].entry)))
    /\ [][\A p \in Procs :
            (proc[p].pc = "delivering" /\ proc'[p].delivery = "failed")
            => /\ logFile' = logFile
               /\ lastFired' = lastFired
               /\ context' = context
               /\ proc'[p].pc = "saving"]_vars

C6_Witness ==
    \E p \in Procs :
        /\ proc[p].pc = "done"
        /\ proc[p].delivery = "failed"
        /\ contextFile # Null
        /\ Val(contextFile).meta.pushesToday > 0

\* C7: no invocation gets past the await of init before context.load and
\* rules.restoreCooldowns have both completed.
C7_InitBeforeEvents ==
    \A p \in Procs :
        proc[p].pc \notin {"idle", "awaitInit"} => initPc = "done" /\ initialized

\* Two requests arrived during init (the second still waits to be resumed);
\* the first has run after it and is deduplicated by a restored cooldown.
C7_Witness ==
    /\ proc[2].pc = "awaitInit"
    /\ proc[1].pc = "appending"
    /\ Val(proc[1].event).subscriptionId \in DOMAIN lastFired
    /\ Val(proc[1].decision).action = "drop"
    /\ Val(proc[1].decision).reason[1] = "dedup"

----------------------------------------------------------------------------
(* Claims about the background engines, checked under SpecPatterns *)

\* the patterns document on disk, as readPatterns() ?? emptyPatterns() gives it
onDisk == IF patternsFile # Null THEN Val(patternsFile) ELSE emptyPatterns

ComputedFields == {"locationRoutines", "healthTrends", "batteryPatterns", "eventStats",
                   "computedAt"}

\* C8: the read-modify-write cycles on patterns.json do not interleave: the
\* write of compute() keeps the trigger cooldowns that are on disk when it
\* writes (none written since its read is lost), and the write of checkAll()
\* keeps every computed field that is on disk when it writes.
C8_NoLostUpdate ==
    [][ /\ (compute.pc = "writing" /\ compute'.pc = "rotateRead")
            => Val(patternsFile').triggerCooldowns = onDisk.triggerCooldowns
        /\ (checkAll.pc = "writing" /\ checkAll'.pc = "delivering")
            => \A f \in ComputedFields : Val(patternsFile')[f] = onDisk[f] ]_vars

\* C9: an entry appended while rotate() is between reading the log and
\* rewriting it is still in the log after the rewrite: the lines appended
\* since the read are the last lines of the rewritten file.
C9_AppendSurvivesRotate ==
    [][ (compute.pc = "rotateWrite" /\ compute'.pc = "idle")
        => LET k == lineCount(logFile) - lineCount(compute.entries)
           IN  lastLines(logFile', k) = lastLines(logFile, k) ]_vars

C11_AttemptSpacing ==
    [][ /\ (checkAll'.pc = "writing" /\ checkAll.pc # "writing")
            => LET id == TriggerIds[checkAll'.idx]
                   before == IF checkAll.pc = "readPatterns" THEN onDisk
                             ELSE Val(checkAll.patterns)
               IN  ~(now - cooldownAt(before, id) < TRIGGER_COOLDOWNS(id))
        /\ \A id \in DOMAIN lastAttempt :
              (lastAttempt'[id] # lastAttempt[id] /\ lastAttempt[id] # Null)
              => Val(lastAttempt'[id]) - Val(lastAttempt[id]) >= TRIGGER_COOLDOWNS(id)
      ]_vars

\* a pass of checkAll's loop from trigger number from on evaluates a predicate
evaluatesFrom(ca, from) ==
    \E i \in from..Len(TriggerIds) :
        ~(now - cooldownAt(Val(ca.patterns), TriggerIds[i]) < TRIGGER_COOLDOWNS(TriggerIds[i]))

\* C12: the trigger predicates of one run of checkAll() all see the same
\* context state, and a run never evaluates them on the state of an event that
\* has been applied to the context but whose processEvent has not yet finished
\* its save.
C12_ConsistentSnapshot ==
    [][ /\ ( /\ checkAll.pc = "delivering" /\ checkAll' # checkAll
              /\ evaluatesFrom(checkAll, checkAll.idx + 1) )
            => ctxOf(checkAll) = Val(checkAll.seen)
        /\ ( /\ checkAll.pc \in {"readPatterns", "delivering"} /\ checkAll' # checkAll
              /\ ~checkAll.stale
              /\ IF checkAll.pc = "readPatterns"
                 THEN evaluatesFrom([patterns |-> Some(onDisk)], 1)
                 ELSE evaluatesFrom(checkAll, checkAll.idx + 1) )
            => \A p \in Procs : proc[p].pc \notin InFlight
      ]_vars

----------------------------------------------------------------------------
(* Two events in a row: the second arrives when the first has been handled *)

RulesConfigs ==
    [llmModel : {<<"openai", "gpt-4o-mini">>}, pushBudgetPerDay : 1..MaxBudget,
     patternWindowDays : {14}, proactiveEnabled : {TRUE}, tzOffset : {0, 3600}]

FirstParams ==
    { Params(Some("default.geofence"), Some("geofence.triggered"),
             [type |-> 1, latitude |-> 48, longitude |-> 11], [zoneName |-> "Home"],
             Some(0)),
      Params(Some("default.battery-critical"), Some("device.battery"),
             [level |-> 14, isLowPowerMode |-> 1], <<>>, Some(T0 - 3600)),
      Params(Some("default.daily-health"), Some("health.summary"),
             [stepsToday |-> 5000], <<>>, Some(T0 - DAY)),
      Params(Some("custom.something"), Some("custom.source"),
             [value |-> 42], <<>>, Some(T0 - 1800)),
      Params(Some("default.battery-low"), Some("device.battery"),
             [level |-> 15], <<>>, Null) }

SecondParams ==
    { Params(Some("default.battery-critical"), Some("device.battery"),
             [level |-> 8], <<>>, Some(T0 - 3600 + t)) : t \in {1799, 1800} }
    \cup
    { Params(Some("default.battery-critical"), Some("device.battery"),
             [level |-> 8, _debugFired |-> 1], <<>>, Some(T0 - 3600 + 60)) }
    \cup
    { Params(Some("default.daily-health"), Some("health.summary"),
             [stepsToday |-> 6000], <<>>, Some(t)) :
        t \in {T0 - DAY + 82799, T0 - DAY + 82800, T0 - 3 * 3600,
               T0 + 2 * 3600, T0 + 3 * 3600 - 1, T0 + 3 * 3600} }
    \cup
    { Params(Some("default.geofence"), Some("geofence.triggered"),
             [type |-> 1, latitude |-> 48, longitude |-> 11], [zoneName |-> "Home"],
             Some(100)),
      Params(Some("default.geofence"), Some("geofence.triggered"),
             [type |-> 0], [zoneName |-> "Home"], Some(T0)),
      Params(Some("default.geofence"), Some("geofence.triggered"),
             [type |-> 1, latitude |-> 48, longitude |-> 11], <<>>, Some(T0)),
      Params(Some("default.geofence"), Some("geofence.triggered"),
             [type |-> 1, latitude |-> 52, longitude |-> 13], [zoneName |-> "Office"],
             Some(T0)) }
    \cup
    { Params(Some("default.daily-health"), Some("health.summary"),
             [sleepDurationSeconds |-> 27000, updatedAt |-> T0 - 60], <<>>, Some(T0)) }
    \cup
    { Params(Some("default.battery-low"), Some("device.battery"), d, <<>>, Null) :
        d \in {[level |-> 15], [level |-> 50], [isLowPowerMode |-> 1]} }
    \cup
    { Params(Some("custom.something"), Some("custom.source"),
             [value |-> 42], <<>>, Some(t)) : t \in {T0 - 1, T0} }

RulesLlmOutcomes ==
    { [kind |-> "payloads", text |-> t] :
        t \in { <<"{push:true,reason:r}">>, <<"{push:false,reason:r}">> } }

Finished == {"done", "failed", "rejected"}

\* startup init has completed
InitRules ==
    /\ config \in RulesConfigs
    /\ now = T0
    /\ initialized = TRUE
    /\ initPc = "done"
    /\ \E d \in Disks :
          /\ contextFile = d.contextFile /\ logFile = d.logFile
          /\ context = IF d.contextFile # Null THEN Val(d.contextFile) ELSE empty
          /\ lastFired = restoreCooldowns(<<>>,
                             pushRecords(Expand(readSince(d.logFile, T0 - DAY))))
    /\ patternsFile = Null
    /\ proc = [p \in Procs |-> idleProc]
    /\ compute = idleCompute
    /\ checkAll = idleCheckAll
    /\ service = idleService
    /\ lastAttempt = noAttempts

NextRules ==
    \/ \E params \in FirstParams : Arrive(1, params)
    \/ \E params \in SecondParams : proc[1].pc \in Finished /\ Arrive(2, params)
    \/ \E p \in Procs, o \in RulesLlmOutcomes : JudgmentReturns(p, o)
    \/ \E p \in Procs, ok \in BOOLEAN : AppendCompletes(p, ok)
    \/ \E p \in Procs, o \in DeliveryOutcomes : DeliveryCompletes(p, o)
    \/ \E p \in Procs : SaveSerialize(p)
    \/ \E p \in Procs, ok \in BOOLEAN : SaveWrite(p, ok)

SpecRules == InitRules /\ [][NextRules]_vars

----------------------------------------------------------------------------
(* Claims about the rules engine and the context counters, under SpecRules *)

\* the step in which handler invocation p applies and evaluates its event
Evaluates(p) == proc[p].pc = "idle" /\ proc'[p].pc \in {"judging", "appending"}

flagged(event) == "_debugFired" \in DOMAIN event.data /\ event.data["_debugFired"] = 1

\* C13: an event with data._debugFired = 1 is decided push with a reason that
\* contains "debug", whatever lastFired and the context hold.
C13_DebugAlwaysPush ==
    [][ \A p \in Procs :
          (Evaluates(p) /\ flagged(Val(proc'[p].event)))
          => /\ Val(proc'[p].decision).action = "push"
             /\ Occurs("debug", Val(proc'[p].decision).reason)
             /\ Val(proc'[p].entry).decision = "push" ]_vars

\* a debug event 60 s after a push of its subscription, the budget used up
C13_Witness ==
    /\ proc[2].pc = "appending"
    /\ flagged(Val(proc[2].event))
    /\ Val(proc[2].event).subscriptionId \in DOMAIN lastFired
    /\ Val(proc[2].event).firedAt - lastFired[Val(proc[2].event).subscriptionId] = 60
    /\ context.meta.pushesToday >= config.pushBudgetPerDay
    /\ Val(proc[2].decision).action = "push"

\* the same event but for its firedAt
sameButTime(a, b) ==
    /\ a.subscriptionId = b.subscriptionId /\ a.source = b.source
    /\ a.data = b.data /\ a.metadata = b.metadata

\* C14: when a default.battery-low event without the debug flag is evaluated
\* and the event handled just before it (the last line of the log) was the
\* same event less than 3600 s earlier, it is dropped with a reason that
\* contains "dedup".
C14_SecondIsDedup ==
    [][ \A p \in Procs :
          ( /\ Evaluates(p)
            /\ \A q \in Procs \ {p} : proc[q].pc \in Finished \cup {"idle"}
            /\ Len(logFile) > 0 )
          => LET e == Val(proc'[p].event)
                 prev == logFile[Len(logFile)].e.event
             IN  ( /\ e.subscriptionId = "default.battery-low"
                   /\ ~flagged(e)
                   /\ sameButTime(e, prev)
                   /\ Abs(e.firedAt - prev.firedAt) < 3600 )
                 => /\ Val(proc'[p].decision).action = "drop"
                    /\ Occurs("dedup", Val(proc'[p].decision).reason) ]_vars

\* lastFired[subscriptionId] exists and firedAt - lastFired < cooldown
withinCooldown(event) ==
    /\ event.subscriptionId \in DOMAIN lastFired
    /\ event.firedAt - lastFired[event.subscriptionId] < cooldownOf(event.subscriptionId)

droppedByDedup(d) == d.action = "drop" /\ Occurs("dedup", d.reason)

\* C15: an event without the debug flag is dropped by dedup exactly when
\* lastFired holds its subscription and firedAt - lastFired < cooldown; at
\* firedAt - lastFired = cooldown and beyond it goes on to the later rules.
C15_DedupStrict ==
    [][ \A p \in Procs :
          (Evaluates(p) /\ ~flagged(Val(proc'[p].event)))
          => (droppedByDedup(Val(proc'[p].decision))
                <=> withinCooldown(Val(proc'[p].event))) ]_vars

\* C16: an event without the debug flag and outside its dedup window, whose
\* subscription is default.battery-critical or whose source is
\* geofence.triggered, is decided push whatever pushesToday is, a used-up
\* budget included.
C16_AlwaysPushFirst ==
    [][ \A p \in Procs :
          LET e == Val(proc'[p].event)
          IN  ( /\ Evaluates(p)
                /\ ~flagged(e) /\ ~withinCooldown(e)
                /\ (e.subscriptionId = "default.battery-critical"
                     \/ e.source = "geofence.triggered") )
              => /\ Val(proc'[p].decision).action = "push"
                 /\ Val(proc'[p].entry).decision = "push" ]_vars

\* a battery-critical event at the end of its cooldown, the budget used up
C16_Witness ==
    /\ proc[2].pc = "appending"
    /\ ~flagged(Val(proc[2].event))
    /\ Val(proc[2].event).subscriptionId = "default.battery-critical"
    /\ "default.battery-critical" \in DOMAIN lastFired
    /\ Val(proc[2].event).firedAt - lastFired["default.battery-critical"] = 1800
    /\ context.meta.pushesToday >= config.pushBudgetPerDay
    /\ Val(proc[2].decision).action = "push"

\* C17: a default.battery-low event without the debug flag and outside its
\* dedup window is dropped as "level unchanged" exactly when the context held
\* a battery level before the event and the event's level is less than 0.02
\* from it; otherwise it is pushed.
C17_BatteryLowAgainstPrior ==
    [][ \A p \in Procs :
          LET e == Val(proc'[p].event)
              d == Val(proc'[p].decision)
              prior == context.device.battery
              unchanged == /\ prior # Null
                           /\ "level" \in DOMAIN e.data
                           /\ Abs(e.data["level"] - Val(prior).level) < 2
          IN  ( /\ Evaluates(p)
                /\ e.subscriptionId = "default.battery-low"
                /\ e.source = "device.battery"
                /\ ~flagged(e) /\ ~withinCooldown(e) )
              => /\ unchanged => d.action = "drop" /\ Occurs("level unchanged", d.reason)
                 /\ ~unchanged => d.action = "push" ]_vars

\* the always-push rules: debug flag, battery-critical, geofence
alwaysPush(event) ==
    \/ flagged(event)
    \/ event.subscriptionId = "default.battery-critical"
    \/ event.source = "geofence.triggered"

\* the rules with a subscription of their own that precede the budget check
ownRule(event) ==
    event.subscriptionId \in {"default.battery-low", "default.daily-health"}

droppedByBudget(d) == d.action = "drop" /\ Occurs("budget", d.reason)

\* C18 as stated: with pushesToday >= pushBudgetPerDay every event that matches
\* no always-push rule is dropped with a reason that contains "budget"; with
\* pushesToday below the budget an event that matches no rule is ambiguous.
C18_BudgetDropsAllOthers ==
    [][ \A p \in Procs :
          LET e == Val(proc'[p].event)
              d == Val(proc'[p].decision)
          IN  Evaluates(p)
              => /\ ( /\ context'.meta.pushesToday >= config.pushBudgetPerDay
                      /\ ~alwaysPush(e) )
                    => droppedByBudget(d)
                 /\ ( /\ context'.meta.pushesToday < config.pushBudgetPerDay
                      /\ ~alwaysPush(e) /\ ~ownRule(e) /\ ~withinCooldown(e) )
                    => d.action = "ambiguous" ]_vars

\* C18, amended: an event that matches none of the rules before the budget
\* check (debug flag, dedup, battery-critical, geofence, battery-low,
\* daily-health) is dropped with a reason that contains "budget" when the
\* pushesToday that evaluate is given is at or above the budget, and is
\* ambiguous when it is below.
C18_BudgetDropsUnmatched ==
    [][ \A p \in Procs :
          LET e == Val(proc'[p].event)
              d == Val(proc'[p].decision)
          IN  ( /\ Evaluates(p)
                /\ ~alwaysPush(e) /\ ~ownRule(e) /\ ~droppedByDedup(d) )
              => IF context'.meta.pushesToday >= config.pushBudgetPerDay
                 THEN droppedByBudget(d) /\ Val(proc'[p].entry).decision = "drop"
                 ELSE d.action = "ambiguous" /\ proc'[p].pc = "judging" ]_vars

\* a custom event arrives with pushesToday equal to the budget
C18_Witness ==
    /\ proc[2].pc = "appending"
    /\ Val(proc[2].event).subscriptionId = "custom.something"
    /\ context.meta.pushesToday = config.pushBudgetPerDay
    /\ droppedByBudget(Val(proc[2].decision))

\* C19: a default.daily-health event without the debug flag and outside its
\* dedup window is decided push when the local hour of firedAt is 6 to 10,
\* and defer otherwise, whatever pushesToday is.
C19_MorningWindow ==
    [][ \A p \in Procs :
          LET e == Val(proc'[p].event)
              d == Val(proc'[p].decision)
              hour == ((e.firedAt + config.tzOffset) \div 3600) % 24
          IN  ( /\ Evaluates(p)
                /\ e.subscriptionId = "default.daily-health"
                /\ ~flagged(e) /\ ~withinCooldown(e) )
              => IF 6 <= hour /\ hour <= 10
                 THEN d.action = "push" /\ Val(proc'[p].entry).decision = "push"
                 ELSE d.action = "defer" /\ Val(proc'[p].entry).decision = "defer" ]_vars

\* 05:00 UTC is 06:00 local: pushed, with the budget used up
C19_Witness ==
    /\ proc[2].pc = "appending"
    /\ Val(proc[2].event).subscriptionId = "default.daily-health"
    /\ Val(proc[2].event).firedAt = T0 - 3 * 3600
    /\ config.tzOffset = 3600
    /\ context.meta.pushesToday >= config.pushBudgetPerDay
    /\ Val(proc[2].decision).action = "push"

\* C20: applying an event adds 1 to eventsToday and leaves pushesToday as it
\* is, unless the UTC day of firedAt differs from the UTC day of a non-zero
\* lastEventAt: then eventsToday becomes 1 and pushesToday 0.  Either way
\* lastEventAt becomes firedAt.
C20_DailyCounters ==
    [][ \A p \in Procs :
          Evaluates(p)
          => LET firedAt == Val(proc'[p].event).firedAt
                 old == context.meta
                 new == context'.meta
                 rollover == /\ old.lastEventAt # 0
                             /\ firedAt \div DAY # old.lastEventAt \div DAY
             IN  /\ new.lastEventAt = firedAt
                 /\ new.lastAgentPushAt = old.lastAgentPushAt
                 /\ IF rollover
                    THEN new.eventsToday = 1 /\ new.pushesToday = 0
                    ELSE /\ new.eventsToday = old.eventsToday + 1
                         /\ new.pushesToday = old.pushesToday ]_vars

\* the first event of a new UTC day after a day with a push
C20_Witness ==
    /\ proc[2].pc \in {"judging", "appending"}
    /\ contextFile # Null
    /\ Val(contextFile).meta.pushesToday > 0
    /\ Val(contextFile).meta.lastEventAt > 0
    /\ Val(contextFile).meta.lastEventAt \div DAY # Val(proc[2].event).firedAt \div DAY
    /\ context.meta.lastEventAt = Val(proc[2].event).firedAt
    /\ context.meta.eventsToday = 1
    /\ context.meta.pushesToday = 0

----------------------------------------------------------------------------
(* Claims about the context store, under SpecRules *)

isGeofence(event) == event.source = "geofence.triggered"

isEnter(event) == Get(event.data, "type") = Some(1)

\* C21 as stated: after a geofence event currentZone is non-null exactly when
\* the event was an enter (data.type = 1); any other event leaves it as it was.
C21_ZoneIffEnter ==
    [][ \A p \in Procs :
          Evaluates(p) =>
            LET event == Val(proc'[p].event)
            IN  IF isGeofence(event)
                THEN (context'.activity.currentZone # Null) <=> isEnter(event)
                ELSE context'.activity.currentZone = context.activity.currentZone
      ]_vars

\* C21: starting from a context with no zone, after a geofence event
\* currentZone is non-null exactly when the event was an enter (data.type = 1)
\* that carried a metadata.zoneName; any other event leaves currentZone as it
\* was.  Hence currentZone is non-null iff the most recent geofence event was
\* such an enter.
C21_ZoneIffNamedEnter ==
    [][ \A p \in Procs :
          Evaluates(p) =>
            LET event == Val(proc'[p].event)
            IN  IF isGeofence(event)
                THEN (context'.activity.currentZone # Null)
                       <=> (isEnter(event) /\ "zoneName" \in DOMAIN event.metadata)
                ELSE context'.activity.currentZone = context.activity.currentZone
      ]_vars

\* an enter without a zone name, applied while the device was in "Home"
C21_Witness ==
    /\ proc[2].pc \in {"appending", "delivering", "saving"}
    /\ isGeofence(Val(proc[2].event))
    /\ isEnter(Val(proc[2].event))
    /\ "zoneName" \notin DOMAIN Val(proc[2].event).metadata
    /\ context.activity.lastTransition # Null
    /\ Val(context.activity.lastTransition).from = Some("Home")
    /\ context.activity.currentZone = Null

\* C22: a geofence enter sets currentZone to metadata.zoneName, zoneEnteredAt
\* and stationarySince to firedAt, isStationary to true and lastTransition to
\* {from: previous zone, to: zone, at: firedAt}; an exit sets currentZone,
\* zoneEnteredAt and stationarySince to absent, isStationary to false and
\* lastTransition to {from: previous zone, to: absent, at: firedAt}.
C22_GeofenceStateMachine ==
    [][ \A p \in Procs :
          (Evaluates(p) /\ isGeofence(Val(proc'[p].event))) =>
            LET event == Val(proc'[p].event)
                zone == IF "zoneName" \in DOMAIN event.metadata
                        THEN Some(event.metadata["zoneName"]) ELSE Null
                act == context'.activity
            IN  IF isEnter(event)
                THEN /\ act.currentZone = zone
                     /\ act.zoneEnteredAt = Some(event.firedAt)
                     /\ act.stationarySince = Some(event.firedAt)
                     /\ act.isStationary = TRUE
                     /\ act.lastTransition =
                          Some([from |-> context.activity.currentZone, to |-> zone,
                                at |-> event.firedAt])
                ELSE /\ act.currentZone = Null
                     /\ act.zoneEnteredAt = Null
                     /\ act.stationarySince = Null
                     /\ act.isStationary = FALSE
                     /\ act.lastTransition =
                          Some([from |-> context.activity.currentZone, to |-> Null,
                                at |-> event.firedAt])
      ]_vars

\* an enter of "Home" followed by an exit of "Home"
C22_Witness ==
    /\ proc[2].pc \in {"appending", "delivering", "saving"}
    /\ isGeofence(Val(proc[2].event))
    /\ ~isEnter(Val(proc[2].event))
    /\ Get(Val(proc[2].event).metadata, "zoneName") = Some("Home")
    /\ context.activity.lastTransition =
         Some([from |-> Some("Home"), to |-> Null, at |-> Val(proc[2].event).firedAt])
    /\ context.activity.currentZone = Null
    /\ context.activity.isStationary = FALSE

\* C23: a health event overwrites every metric its data carries and keeps the
\* prior value of every metric its data lacks (absent if there was none);
\* device.battery, device.location and activity are left unchanged.
C23_HealthMerge ==
    [][ \A p \in Procs :
          (Evaluates(p) /\ startsWithHealth(Val(proc'[p].event).source)) =>
            LET data == Val(proc'[p].event).data
                prior == context.device.health
            IN  /\ context'.device.health # Null
                /\ \A k \in HealthMetrics :
                     Val(context'.device.health)[k] =
                       IF k \in DOMAIN data THEN Some(data[k])
                       ELSE IF prior # Null THEN Val(prior)[k] ELSE Null
                /\ context'.device.battery = context.device.battery
                /\ context'.device.location = context.device.location
                /\ context'.activity = context.activity
      ]_vars

\* a summary that carries only the sleep duration, after one that carried only
\* the steps
C23_Witness ==
    /\ proc[2].pc \in {"judging", "appending", "delivering", "saving"}
    /\ startsWithHealth(Val(proc[2].event).source)
    /\ DOMAIN Val(proc[2].event).data = {"sleepDurationSeconds", "updatedAt"}
    /\ context.device.health # Null
    /\ Val(context.device.health).stepsToday = Some(5000)
    /\ Val(context.device.health).sleepDurationSeconds = Some(27000)
    /\ Val(context.device.health).hrv = Null

\* C24: a device.battery event overwrites the battery fields its data carries
\* (level, isLowPowerMode) and keeps the prior value of those it lacks; health,
\* location and activity are left unchanged.
C24_BatteryMerge ==
    [][ \A p \in Procs :
          (Evaluates(p) /\ Val(proc'[p].event).source = "device.battery") =>
            LET data == Val(proc'[p].event).data
                prior == context.device.battery
                battery == Val(context'.device.battery)
            IN  /\ context'.device.battery # Null
                /\ "level" \in DOMAIN data => battery.level = data["level"]
                /\ "isLowPowerMode" \in DOMAIN data
                     => battery.isLowPowerMode = (data["isLowPowerMode"] = 1)
                /\ prior # Null =>
                     /\ "level" \notin DOMAIN data => battery.level = Val(prior).level
                     /\ "isLowPowerMode" \notin DOMAIN data
                          => battery.isLowPowerMode = Val(prior).isLowPowerMode
                /\ context'.device.health = context.device.health
                /\ context'.device.location = context.device.location
                /\ context'.activity = context.activity
      ]_vars

----------------------------------------------------------------------------
(* The event log under compute() and rotate(), beside one event handler *)

LogConfigs ==
    [llmModel : {<<"openai", "gpt-4o-mini">>}, pushBudgetPerDay : {MaxBudget},
     patternWindowDays : {14}, proactiveEnabled : {FALSE}, tzOffset : {0}]

\* an entry logged age seconds ago
EdgeEntry(age) ==
    entryOf(Params(Some("custom.something"), Some("custom.source"),
                   [value |-> 42], <<>>, Some(T0 - age)),
            "drop", "llm: not relevant")

\* a health summary logged age seconds ago
TrendEntry(age, data) ==
    entryOf(Params(Some("default.daily-health"), Some("health.summary"),
                   data, <<>>, Some(T0 - age)),
            "push", "daily health summary - within morning window")

\* what the two summaries of a trend log report
TrendValues == {9, 11, 12}

\* a summary ten days ago and one two days ago (steps and resting heart rate
\* move one way, sleep the other), or only the older one, or summaries
\* without a resting heart rate
TrendLogs ==
    { <<[e |-> TrendEntry(10 * DAY, [stepsToday |-> o, sleepDurationSeconds |-> r,
                                     restingHeartRate |-> o]), n |-> 1],
        [e |-> TrendEntry(2 * DAY, [stepsToday |-> r, sleepDurationSeconds |-> o,
                                    restingHeartRate |-> r]), n |-> 1]>> :
        r \in TrendValues, o \in TrendValues }
    \cup
    { <<[e |-> TrendEntry(10 * DAY, [stepsToday |-> 9, sleepDurationSeconds |-> 9,
                                     restingHeartRate |-> 9]), n |-> 1]>>,
      <<[e |-> TrendEntry(10 * DAY, [stepsToday |-> 9]), n |-> 1],
        [e |-> TrendEntry(2 * DAY, [stepsToday |-> 12]), n |-> 2]>> }

\* a log at the limit, one over the limit with old and fresh entries, one
\* over the limit with fresh entries only, one with entries logged one second
\* before, and exactly at, the 30-day cutoff; and the trend logs
Logs ==
    TrendLogs \cup
    { <<>>,
      <<[e |-> OldEntry, n |-> MAX_LINES]>>,
      FullLog,
      <<[e |-> EdgeEntry(3 * DAY), n |-> MAX_LINES], [e |-> HealthEntry, n |-> 2]>>,
      <<[e |-> OldEntry, n |-> MAX_LINES - 1], [e |-> EdgeEntry(MAX_AGE + 1), n |-> 1],
        [e |-> EdgeEntry(MAX_AGE), n |-> 1], [e |-> HealthEntry, n |-> 1]>> }

InitLog ==
    /\ config \in LogConfigs
    /\ now = T0
    /\ initialized = TRUE
    /\ initPc = "done"
    /\ logFile \in Logs
    /\ contextFile = Null
    /\ patternsFile = Null
    /\ context = empty
    /\ lastFired = restoreCooldowns(<<>>, pushRecords(Expand(readSince(logFile, T0 - DAY))))
    /\ proc = [p \in Procs |-> idleProc]
    /\ compute = idleCompute
    /\ checkAll = idleCheckAll
    /\ service = idleService
    /\ lastAttempt = noAttempts

NextLog ==
    \/ \E params \in PatternParams : Arrive(1, params)
    \/ \E ok \in BOOLEAN : AppendCompletes(1, ok)
    \/ \E o \in DeliveryOutcomes : DeliveryCompletes(1, o)
    \/ SaveSerialize(1)
    \/ \E ok \in BOOLEAN : SaveWrite(1, ok)
    \/ ServiceStart
    \/ ServiceStop
    \/ ComputeStart
    \/ ComputeReadLog
    \/ ComputeReadPatterns
    \/ \E ok \in BOOLEAN : ComputeWrite(ok)
    \/ RotateRead
    \/ \E ok \in BOOLEAN : RotateWrite(ok)

SpecLog == InitLog /\ [][NextLog]_vars

\* the entries of a list of runs that are no older than MAX_AGE at time t
qualifying(runs, t) == SelectSeq(runs, LAMBDA r : r.e.timestamp >= t - MAX_AGE)

\* s holds the last lines of t, in t's order
isTail(s, t) ==
    \/ s = <<>>
    \/ /\ Len(s) <= Len(t)
       /\ LET off == Len(t) - Len(s)
          IN  /\ \A i \in 2..Len(s) : s[i] = t[off + i]
              /\ s[1].e = t[off + 1].e
              /\ s[1].n >= 1 /\ s[1].n <= t[off + 1].n

\* C25: rotate() on a log of at most MAX_LINES entries writes nothing and
\* returns 0; on a longer log it returns a positive number, the entries it
\* read minus the entries it leaves, and leaves at most MAX_LINES entries, none
\* older than now - 30 days: the last min(MAX_LINES, qualifying) qualifying
\* entries of what it read, in their order and unaltered.
C25_Rotate ==
    [][ /\ (compute.pc = "rotateRead" /\ compute'.pc # "rotateRead")
          => IF lineCount(logFile) <= MAX_LINES
             THEN compute'.pc = "idle" /\ compute'.removed = 0 /\ logFile' = logFile
             ELSE compute'.pc = "rotateWrite" /\ compute'.removed > 0
        /\ (compute.pc = "rotateWrite" /\ compute'.pc = "idle" /\ logFile' # logFile)
          => LET read == compute.entries
                 fresh == qualifying(read, now)
             IN  /\ compute.removed > 0
                 /\ compute.removed = lineCount(read) - lineCount(logFile')
                 /\ lineCount(logFile') <= MAX_LINES
                 /\ \A i \in 1..Len(logFile') :
                      logFile'[i].e.timestamp >= now - MAX_AGE
                 /\ lineCount(logFile') = Min(lineCount(fresh), MAX_LINES)
                 /\ isTail(logFile', fresh)
      ]_vars

\* a log of MAX_LINES + 2 fresh entries has been cut to its last MAX_LINES
C25_Witness ==
    /\ compute.pc = "idle"
    /\ service.state # "new"
    /\ lineCount(logFile) = MAX_LINES
    /\ Len(logFile) = 2
    /\ logFile[1] = [e |-> EdgeEntry(3 * DAY), n |-> MAX_LINES - 2]
    /\ logFile[2] = [e |-> HealthEntry, n |-> 2]

----------------------------------------------------------------------------
(* Claims about errors and persistence in the pipeline, under Spec *)

\* C26: processEvent runs to its end for every outcome of its suspension
\* points (LLM judgment, event-log append, delivery, context save): no
\* invocation is ended by an error that processEvent lets through to the
\* handler's catch.
C26_ProcessEventCompletes == \A p \in Procs : proc[p].pc # "failed"

\* the handler is past its validation: it has answered the request
Answers(p) == proc[p].pc \in {"idle", "awaitInit"} /\ proc'[p].pc \notin {"idle", "awaitInit"}

\* C27: a request whose subscriptionId or source is missing, empty or not a
\* string is answered INVALID_PARAMS, never {accepted: true}, and changes
\* nothing: context, lastFired, the event log and context.json are as before
\* and processEvent is not run; a request that is accepted carries both.
C27_InvalidParamsRejected ==
    [][ \A p \in Procs :
          /\ Answers(p) =>
               IF proc'[p].pc = "rejected"
               THEN /\ proc'[p].response = "INVALID_PARAMS"
                    /\ proc'[p].trace = <<>>
                    /\ UNCHANGED <<context, lastFired, logFile, contextFile>>
               ELSE /\ proc'[p].response = "accepted"
                    /\ Val(proc'[p].event).subscriptionId # ""
                    /\ Val(proc'[p].event).source # ""
          /\ (proc[p].pc = "awaitInit" /\ proc'[p].pc # "awaitInit") =>
               LET params == Val(proc[p].params)
                   missing(f) == f = Null \/ f = Some("")
               IN  (missing(params.subscriptionId) \/ missing(params.source))
                     <=> proc'[p].pc = "rejected"
          /\ proc[p].pc = "rejected" =>
               proc'[p].pc = "rejected" /\ proc'[p].response = "INVALID_PARAMS"
      ]_vars

\* a request without a source was answered INVALID_PARAMS after an event had
\* been handled: the state that event left is untouched
C27_Witness ==
    /\ proc[1].pc = "done"
    /\ proc[2].pc = "rejected"
    /\ proc[2].response = "INVALID_PARAMS"
    /\ context.meta.eventsToday = 1
    /\ contextFile = Some(context)
    /\ lineCount(logFile) = 1

\* C28: every processEvent invocation ends with context.save(), whatever its
\* decision and whether or not delivery succeeds; when it returns context.json
\* holds the context as serialised after this event's update and, for a push,
\* after its recordPush.
C28_SavedAfterEveryEvent ==
    [][ \A p \in Procs :
          (proc[p].pc \in InFlight /\ proc'[p].pc \in {"done", "failed"}) =>
            /\ proc[p].pc = "writing"
            /\ proc'[p].pc = "done" =>
                 /\ contextFile' = proc[p].snap
                 /\ Val(contextFile').meta.eventsToday >= 1
                 /\ proc[p].delivery # "none" => Val(contextFile').meta.pushesToday >= 1
      ]_vars

----------------------------------------------------------------------------
(* Claims about the schedulers and the triggers *)

\* C29: once the background service has been stopped no run of compute() and
\* no run of checkAll() is started, the one-shot run scheduled five minutes
\* after start included.
C29_StopCancelsSchedulers ==
    [][ service.state = "stopped" =>
          /\ ~(compute.pc = "idle" /\ compute'.pc # "idle")
          /\ ~(checkAll.pc = "idle" /\ checkAll'.pc # "idle")
      ]_vars

\* The proactive engine on a fresh installation, started at any hour of a week
\* (T0 is a Friday, 08:00 UTC).
WeekHours == { T0 - 8 * 3600 + d * DAY + h * 3600 : d \in 0..6, h \in 0..23 }

InitWeek ==
    /\ config \in PatternConfigs
    /\ now \in WeekHours
    /\ initialized = TRUE
    /\ initPc = "done"
    /\ contextFile = Null
    /\ logFile = <<>>
    /\ patternsFile = Null
    /\ context = empty
    /\ lastFired = <<>>
    /\ proc = [p \in Procs |-> idleProc]
    /\ compute = idleCompute
    /\ checkAll = idleCheckAll
    /\ service = idleService
    /\ lastAttempt = noAttempts

NextWeek ==
    \/ ServiceStart
    \/ ServiceStop
    \/ ComputeStart
    \/ ComputeReadLog
    \/ ComputeReadPatterns
    \/ \E ok \in BOOLEAN : ComputeWrite(ok)
    \/ RotateRead
    \/ \E timer \in {"interval", "initial"} : CheckAllStart(timer)
    \/ CheckAllRead
    \/ \E ok \in BOOLEAN : CheckAllWrite(ok)
    \/ \E o \in DeliveryOutcomes : CheckAllDeliver(o)

SpecWeek == InitWeek /\ [][NextWeek]_vars

\* C30: with the empty context and emptyPatterns() (no patterns.json yet) no
\* trigger fires, at any hour of any day of the week: a run of checkAll() that
\* reads them ends without writing a cooldown or delivering anything.
C30_NothingFiresOnEmptyInputs ==
    [][ ( /\ checkAll.pc = "readPatterns" /\ checkAll'.pc # "readPatterns"
          /\ patternsFile = Null
          /\ ctxOf(checkAll) = empty )
        => /\ checkAll'.pc = "idle"
           /\ \A i \in 1..Len(TriggerIds) :
                ~triggerCheck(TriggerIds[i], empty, emptyPatterns, now, config.tzOffset)
      ]_vars

----------------------------------------------------------------------------
(* Claims about the judgment layer's prompt, under SpecRules *)

\* coordinates the alternative contexts are given
OtherCoordinates == {0, 48, 52}

\* ctx with other raw coordinates in device.location
withCoordinates(ctx, lat, lon, acc) ==
    [ctx EXCEPT !.device.location =
        Some([Val(@) EXCEPT !.latitude = lat, !.longitude = lon,
                            !.horizontalAccuracy = acc])]

\* C31: for a fixed event, pushesToday, budget and time, contexts that differ
\* only in device.location.latitude, longitude and horizontalAccuracy give the
\* same prompt, and the prompt's context shows the location's label.
C31_PromptHidesCoordinates ==
    [][ \A p \in Procs :
          (proc[p].pc = "idle" /\ proc'[p].pc = "judging"
             /\ context'.device.location # Null) =>
            LET event == Val(proc'[p].event)
                prompt == Val(proc'[p].prompt)
                label == Val(context'.device.location).label
            IN  /\ \A lat, lon, acc \in OtherCoordinates :
                     buildPrompt(event, withCoordinates(context', lat, lon, acc),
                                 context'.meta.pushesToday, config.pushBudgetPerDay, now)
                       = prompt
                /\ Val(prompt[6][2].device.location).label =
                     IF label # Null THEN Val(label) ELSE "Unknown"
                /\ DOMAIN Val(prompt[6][2].device.location) = {"label", "updatedAt"}
      ]_vars

\* an ambiguous event is being judged while the device is at "Home", whose
\* coordinates the context holds
C31_Witness ==
    /\ proc[2].pc = "judging"
    /\ context.device.location # Null
    /\ Val(context.device.location).latitude = 48
    /\ Val(context.device.location).label = Some("Home")
    /\ Val(Val(proc[2].prompt)[6][2].device.location).label = "Home"

----------------------------------------------------------------------------
(* A restart of the host process between two events *)

\* The process ends with no handler in flight and the plugin is registered
\* anew: a fresh context manager and rules engine, init pending.  What the
\* old process left of invocation 1 is kept for reference only.
Restart ==
    /\ initPc = "done"
    /\ proc[1].pc \in Finished
    /\ \A p \in Procs : p # 1 => proc[p].pc = "idle"
    /\ context' = empty
    /\ lastFired' = <<>>
    /\ initialized' = FALSE
    /\ initPc' = "load"
    /\ UNCHANGED <<lastAttempt, config, now, contextFile, logFile, patternsFile, proc,
                   compute, checkAll, service>>

BeforeParams ==
    { Params(Some("custom.something"), Some("custom.source"),
             [value |-> 42, _debugFired |-> 1], <<>>, Some(T0 - 1000)),
      Params(Some("custom.something"), Some("custom.source"),
             [value |-> 42], <<>>, Some(T0 + 900)),
      Params(Some("default.geofence"), Some("geofence.triggered"),
             [type |-> 1, latitude |-> 48, longitude |-> 11], [zoneName |-> "Home"],
             Some(T0)),
      Params(Some("default.battery-critical"), Some("device.battery"),
             [level |-> 8], <<>>, Some(T0)) }

AfterParams ==
    { Params(Some("custom.something"), Some("custom.source"),
             [value |-> 42], <<>>, Some(t)) : t \in {T0 + 895, T0 + 905, T0 + 2705} }
    \cup
    { Params(Some("default.geofence"), Some("geofence.triggered"),
             [type |-> 0], [zoneName |-> "Home"], Some(t)) : t \in {T0 + 299, T0 + 300} }
    \cup
    { Params(Some("default.battery-critical"), Some("device.battery"),
             [level |-> 7], <<>>, Some(t)) : t \in {T0 + 1799, T0 + 1800} }

NextRestart ==
    \/ \E params \in BeforeParams : Arrive(1, params)
    \/ \E params \in AfterParams : proc[1].pc \in Finished /\ Arrive(2, params)
    \/ \E p \in Procs : ResumeAfterInit(p)
    \/ \E p \in Procs, o \in RulesLlmOutcomes : JudgmentReturns(p, o)
    \/ \E p \in Procs, ok \in BOOLEAN : AppendCompletes(p, ok)
    \/ \E p \in Procs, o \in DeliveryOutcomes : DeliveryCompletes(p, o)
    \/ \E p \in Procs : SaveSerialize(p)
    \/ \E p \in Procs, ok \in BOOLEAN : SaveWrite(p, ok)
    \/ Restart
    \/ InitLoad
    \/ InitRestore

SpecRestart == InitRules /\ [][NextRestart]_vars

\* the records startup init hands to restoreCooldowns
recentPushes == pushRecords(Expand(readSince(logFile, now - DAY)))

\* C32: the lastFired map that startup init rebuilds from the push entries of
\* the last 24 hours of the log gives every subsequent event the same dedup
\* decision as the map the process held just before the restart.
C32_CooldownsRecoverable ==
    [][ /\ (initPc = "restore" /\ initPc' = "done")
          => lastFired' = restoreCooldowns(<<>>, recentPushes)
        /\ (initPc = "done" /\ initPc' = "load")
          => \A params \in AfterParams :
               LET event == buildEvent(params, now)
               IN  insideDedupWindow(event, lastFired)
                     <=> insideDedupWindow(event, restoreCooldowns(<<>>, recentPushes))
      ]_vars

\* maps the rules engine may hold when restoreCooldowns is called
HeldMaps ==
    { <<>>,
      [s \in {"custom.something"} |-> 0],
      [s \in {"custom.something"} |-> T0 - 950],
      [s \in {"custom.something"} |-> T0 + 5000],
      [s \in {"default.geofence"} |-> T0 - 950] }

\* entries in the order given by the permutation f of their indices
reordered(entries, f) == [i \in 1..Len(entries) |-> entries[f[i]]]

\* the greatest of a non-empty set of numbers
greatest(S) == CHOOSE x \in S : \A y \in S : y <= x

\* C33: restoreCooldowns(entries) sets lastFired[s], for every subscription s
\* of entries, to the greatest firedAt among its entries and the value held
\* before; subscriptions without entries keep their value; the result does not
\* depend on the order of entries, restoring the same entries again changes
\* nothing, and no held value is lowered.
C33_RestoreTakesMax ==
    [][ (initPc = "restore" /\ initPc' = "done") =>
          LET entries == recentPushes
              subs == {entries[i].subscriptionId : i \in 1..Len(entries)}
              times(s, lf) ==
                  {entries[i].firedAt : i \in {j \in 1..Len(entries) :
                                                  entries[j].subscriptionId = s}}
                    \cup (IF s \in DOMAIN lf THEN {lf[s]} ELSE {})
          IN  /\ lastFired' = restoreCooldowns(lastFired, entries)
              /\ \A lf \in HeldMaps \cup {lastFired} :
                   LET out == restoreCooldowns(lf, entries)
                   IN  /\ DOMAIN out = DOMAIN lf \cup subs
                       /\ \A s \in subs : out[s] = greatest(times(s, lf))
                       /\ \A s \in DOMAIN lf : out[s] >= lf[s]
                       /\ \A f \in Permutations(1..Len(entries)) :
                            restoreCooldowns(lf, reordered(entries, f)) = out
                       /\ restoreCooldowns(out, entries) = out
      ]_vars

\* init has restored from a log with two pushes of one subscription, the
\* later entry carrying the earlier firedAt
C33_Witness ==
    /\ initPc = "done"
    /\ Len(recentPushes) = 2
    /\ recentPushes[1].subscriptionId = recentPushes[2].subscriptionId
    /\ recentPushes[1].firedAt > recentPushes[2].firedAt
    /\ lastFired = [s \in {recentPushes[1].subscriptionId} |-> recentPushes[1].firedAt]

----------------------------------------------------------------------------
(* Claims about the pattern engine, under SpecLog *)

\* compute() has read the log and the patterns and built its document
Computes == compute.pc = "readPatterns" /\ compute'.pc = "writing"

\* the label of recent against baseline: above when recent / baseline > 1.1,
\* below when recent / baseline < 0.9
trendLabel(recent, baseline, above, below) ==
    IF recent = Null \/ baseline = Null THEN Null
    ELSE LET r == Val(recent)
             b == Val(baseline)
         IN  IF 10 * r.num * b.den > 11 * b.num * r.den THEN Some(above)
             ELSE IF 10 * r.num * b.den < 9 * b.num * r.den THEN Some(below)
             ELSE Some("stable")

\* C34: steps and sleep are improving when recent / baseline > 1.1, declining
\* when < 0.9, stable otherwise; resting heart rate is declining when the
\* ratio is > 1.1 and improving when < 0.9; a trend is absent when either
\* average is absent.
C34_TrendLabels ==
    [][ Computes =>
          LET health == SelectSeq(compute.entries,
                                  LAMBDA r : startsWithHealth(r.e.event.source))
              recent(k) == average(metricValues(
                               SelectSeq(health, LAMBDA r :
                                   r.e.event.firedAt >= now - 7 * DAY), k))
              baseline(k) == average(metricValues(health, k))
              trends == Val(compute'.doc).healthTrends
          IN  /\ trends.stepsTrend =
                   trendLabel(recent("stepsToday"), baseline("stepsToday"),
                              "improving", "declining")
              /\ trends.sleepTrend =
                   trendLabel(recent("sleepDurationSeconds"),
                              baseline("sleepDurationSeconds"), "improving", "declining")
              /\ trends.restingHrTrend =
                   trendLabel(recent("restingHeartRate"), baseline("restingHeartRate"),
                              "declining", "improving")
      ]_vars

\* steps up by more than a tenth, sleep down by more than a tenth, resting
\* heart rate up by more than a tenth
C34_Witness ==
    /\ compute.pc = "writing"
    /\ Val(compute.doc).healthTrends.stepsTrend = Some("improving")
    /\ Val(compute.doc).healthTrends.sleepTrend = Some("declining")
    /\ Val(compute.doc).healthTrends.restingHrTrend = Some("declining")

----------------------------------------------------------------------------
(* Claims about the side effects of a decision, under SpecRules *)

\* invocation p has its entry logged in this step
LogsEntry(p) == proc[p].pc = "appending" /\ proc'[p].appended

\* invocation p is past the rules and the judgment with this decision
decided(p, actions) ==
    /\ proc[p].pc \in {"appending", "saving", "writing"}
    /\ Val(proc[p].decision).action \in actions

\* C35: recordFired, recordPush and the delivery command are invoked exactly
\* when the logged decision is push; after a drop or defer decision lastFired,
\* pushesToday and lastAgentPushAt stay as they are and nothing is delivered;
\* a deferred event is never evaluated again or delivered.
C35_OnlyPushHasSideEffects ==
    [][ \A p \in Procs :
          /\ (proc[p].pc # "delivering" /\ proc'[p].pc = "delivering")
                <=> (LogsEntry(p) /\ Val(proc[p].entry).decision = "push")
          /\ (LogsEntry(p) /\ Val(proc[p].entry).decision = "push") =>
                /\ lastFired' = recordFired(lastFired, Val(proc[p].event).subscriptionId,
                                            Val(proc[p].event).firedAt)
                /\ context'.meta.pushesToday = context.meta.pushesToday + 1
                /\ context'.meta.lastAgentPushAt = now
                /\ logFile' = append(logFile, Val(proc[p].entry))
          /\ (decided(p, {"drop", "defer"}) /\ proc'[p] # proc[p]) =>
                /\ lastFired' = lastFired
                /\ context'.meta.pushesToday = context.meta.pushesToday
                /\ context'.meta.lastAgentPushAt = context.meta.lastAgentPushAt
                /\ proc'[p].delivery = "none"
                /\ proc'[p].pc \in {"saving", "writing"} \cup Finished
                /\ proc'[p].pc \notin Finished =>
                      /\ CountOf("evaluate", proc'[p].trace) = 1
                      /\ CountOf("recordFired", proc'[p].trace) = 0
                      /\ CountOf("recordPush", proc'[p].trace) = 0
                      /\ CountOf("deliver", proc'[p].trace) = 0
          /\ proc[p].pc \in Finished => proc'[p] = proc[p]
      ]_vars

\* a deferred health summary is being saved after an earlier push
C35_Witness ==
    /\ proc[1].pc = "done" /\ proc[1].delivery = "ok"
    /\ proc[2].pc = "saving"
    /\ Val(proc[2].decision).action = "defer"
    /\ proc[2].appended
    /\ context.meta.pushesToday = 1

----------------------------------------------------------------------------
(* Claims about compute(), under SpecPatterns *)

\* C36: the document compute() writes carries the triggerCooldowns of the
\* document it read (the empty ones if there was none), every other field is
\* computed from the entries it read, and rotate() starts only when the
\* patterns write has completed.
C36_ComputeKeepsCooldowns ==
    [][ /\ (compute.pc = "readPatterns" /\ compute'.pc = "writing") =>
              LET doc == Val(compute'.doc)
              IN  /\ doc.triggerCooldowns =
                        IF patternsFile # Null THEN Val(patternsFile).triggerCooldowns
                        ELSE emptyPatterns.triggerCooldowns
                  /\ doc.locationRoutines =
                        computeLocationRoutines(compute.entries, config.tzOffset)
                  /\ doc.healthTrends = computeHealthTrends(compute.entries, now)
                  /\ doc.batteryPatterns = computeBatteryPatterns(compute.entries)
                  /\ doc.eventStats = computeEventStats(compute.entries, now)
                  /\ doc.computedAt = now
        /\ (compute.pc = "writing" /\ compute'.pc = "writing") =>
              compute'.doc = compute.doc
        /\ (compute.pc = "writing" /\ patternsFile' # patternsFile
               /\ compute'.pc # "writing") =>
              patternsFile' = compute.doc
        /\ (compute.pc # "rotateRead" /\ compute'.pc = "rotateRead") =>
              /\ compute.pc = "writing"
              /\ patternsFile' = compute.doc
        /\ (compute.pc \notin {"rotateRead", "rotateWrite"}) =>
              compute'.pc # "rotateWrite"
      ]_vars

\* compute() has written a document over one with trigger cooldowns in it and
\* is about to rotate
C36_Witness ==
    /\ compute.pc = "rotateRead"
    /\ patternsFile # Null
    /\ Val(patternsFile).triggerCooldowns # emptyPatterns.triggerCooldowns
    /\ Val(patternsFile).computedAt = now

----------------------------------------------------------------------------
(* Claims about the logged entry and the verdict, under Spec *)

\* log2 is log with exactly one more line, entry, at its end
oneMoreLine(log, log2, entry) ==
    \/ log2 = Append(log, [e |-> entry, n |-> 1])
    \/ /\ log # <<>>
       /\ log[Len(log)].e = entry
       /\ log2 = [log EXCEPT ![Len(log)].n = @ + 1]

\* C37: an invocation that reaches the logging step appends exactly one entry,
\* which carries the invocation's event and a decision of push, drop or defer;
\* an ambiguous rules result is logged as push or drop with a reason that
\* starts with "llm: ".
C37_OneEntryPerInvocation ==
    [][ \A p \in Procs :
          /\ (proc[p].pc # "appending" /\ proc'[p].pc = "appending") =>
                /\ proc[p].pc \in {"idle", "awaitInit", "judging"}
                /\ CountOf("append", proc'[p].trace) = 1
                /\ Val(proc'[p].entry).event = Val(proc'[p].event)
                /\ Val(proc'[p].entry).decision \in {"push", "drop", "defer"}
                /\ Val(proc'[p].entry).timestamp = now
          /\ (proc[p].pc = "judging" /\ proc'[p].pc # "judging") =>
                /\ Val(proc[p].decision).action = "ambiguous"
                /\ proc'[p].pc = "appending"
                /\ Val(proc'[p].entry).event = Val(proc[p].event)
                /\ Val(proc'[p].entry).decision \in {"push", "drop"}
                /\ Head(Val(proc'[p].entry).reason) = "llm: "
          /\ (proc[p].pc \in {"idle", "awaitInit"} /\ proc'[p].pc = "appending") =>
                Val(proc'[p].decision).action # "ambiguous"
          /\ (proc[p].pc = "appending" /\ proc'[p] # proc[p]) =>
                \/ /\ oneMoreLine(logFile, logFile', Val(proc[p].entry))
                   /\ proc'[p].appended
                   /\ proc'[p].pc \in {"delivering", "saving"}
                \/ /\ logFile' = logFile
                   /\ proc'[p].pc = "failed"
          /\ (proc[p].pc # "appending" /\ proc'[p] # proc[p]) => logFile' = logFile
      ]_vars

\* an ambiguous event was pushed by the judgment and is in the log, once
C37_Witness ==
    \E p \in Procs :
        /\ proc[p].pc = "delivering"
        /\ proc[p].llm # Null
        /\ Head(Val(proc[p].entry).reason) = "llm: "
        /\ CountOf(Val(proc[p].entry), Expand(logFile)) = 1

\* C38: an ambiguous event is logged as drop only if the reply, with its
\* fences stripped, parses to an object whose push field is the boolean
\* false; every other reply is logged as push.
C38_DropOnlyOnExplicitFalse ==
    [][ \A p \in Procs :
          (proc[p].pc = "judging" /\ proc'[p].pc = "appending") =>
              LET reply == Val(proc'[p].llm)
                  parsed == JsonParse(stripFences(reply.text))
                  explicit == /\ reply.kind = "payloads"
                              /\ parsed.ok
                              /\ parsed.kind = "object"
                              /\ parsed.push = "false"
              IN  Val(proc'[p].entry).decision = IF explicit THEN "drop" ELSE "push"
      ]_vars

----------------------------------------------------------------------------
(* Claims about the context as a whole, under SpecRules *)

\* C39: starting from the empty context, after any sequence of events, a
\* present device.location has the label activity.currentZone, and a non-null
\* currentZone comes with a non-null zoneEnteredAt and isStationary true.
C39_LocationFollowsZone ==
    /\ context.device.location # Null =>
          Val(context.device.location).label = context.activity.currentZone
    /\ context.activity.currentZone # Null =>
          /\ context.activity.zoneEnteredAt # Null
          /\ context.activity.isStationary

\* the device has left the zone it had entered: the location is still there,
\* without a label
C39_Witness ==
    /\ context.device.location # Null
    /\ context.activity.currentZone = Null
    /\ context.activity.lastTransition # Null
    /\ Val(context.activity.lastTransition).from # Null
    /\ ~context.activity.isStationary

----------------------------------------------------------------------------
(* Claims about the saved context, under Spec *)

\* C40: whenever no processEvent invocation is in flight and at least one has
\* completed, context.json holds the in-memory context, whatever the
\* interleaving of the invocations and the order in which their save writes
\* complete (stated for runs in which no append or save was rejected).
C40_SavedContextIsCurrent ==
    ( /\ \A p \in Procs : proc[p].pc \in {"idle", "done", "rejected"}
      /\ \E p \in Procs : proc[p].pc = "done" )
    => contextFile = Some(context)

====
